---- MODULE Spec2Model ----
(***************************************************************************)
(* A model of one vulcan node: the transaction and block data model, the   *)
(* UTXO engine, the chain, the mempool, Proof-of-Work, the miner, and the  *)
(* two input paths (the HTTP facade and the gossip message handler).       *)
(*                                                                         *)
(* Strings are sequences of atoms, so that Go's string concatenation is    *)
(* \o: an address is one atom, a decimal number is its digits, and a       *)
(* SHA-256 digest is kept as its preimage between two bracket atoms; the   *)
(* 64 hex characters of a digest are those of SHA-256 over the bytes of    *)
(* the preimage (TextBytes, Sum256).  uint64 amounts are four 16-bit       *)
(* limbs, least significant first, so that sums wrap at 2^64 exactly as    *)
(* the Go code's do.                                                       *)
(***************************************************************************)
EXTENDS Integers, Sequences, FiniteSets, TLC

----------------------------------------------------------------------------
(* Bounds of the model.                                                    *)

MaxHeight == 2
MaxClock == 3
MaxMempool == 2
MaxNonce == 63

----------------------------------------------------------------------------
(* uint64 arithmetic (Go's wrapping unsigned arithmetic).                  *)

LimbBase == 65536

U64Zero == <<0, 0, 0, 0>>

U64Max == <<LimbBase - 1, LimbBase - 1, LimbBase - 1, LimbBase - 1>>

U64(n) == <<n % LimbBase, (n \div LimbBase) % LimbBase, 0, 0>>

U64Add(a, b) ==
  LET s1 == a[1] + b[1]
      s2 == a[2] + b[2] + (s1 \div LimbBase)
      s3 == a[3] + b[3] + (s2 \div LimbBase)
      s4 == a[4] + b[4] + (s3 \div LimbBase)
  IN  <<s1 % LimbBase, s2 % LimbBase, s3 % LimbBase, s4 % LimbBase>>

U64Sub(a, b) ==
  LET d1 == a[1] - b[1]
      d2 == a[2] - b[2] - (IF d1 < 0 THEN 1 ELSE 0)
      d3 == a[3] - b[3] - (IF d2 < 0 THEN 1 ELSE 0)
      d4 == a[4] - b[4] - (IF d3 < 0 THEN 1 ELSE 0)
  IN  <<d1 % LimbBase, d2 % LimbBase, d3 % LimbBase, d4 % LimbBase>>

U64Less(a, b) ==
  \/ a[4] < b[4]
  \/ a[4] = b[4] /\ a[3] < b[3]
  \/ a[4] = b[4] /\ a[3] = b[3] /\ a[2] < b[2]
  \/ a[4] = b[4] /\ a[3] = b[3] /\ a[2] = b[2] /\ a[1] < b[1]

U64GreaterEq(a, b) == ~U64Less(a, b)

----------------------------------------------------------------------------
(* Text: decimal rendering (%d), time formatting, SHA-256.                 *)

DigitChars == <<"0", "1", "2", "3", "4", "5", "6", "7", "8", "9">>

RECURSIVE NatDigits(_)
NatDigits(n) ==
  IF n = 0 THEN <<>> ELSE NatDigits(n \div 10) \o <<DigitChars[(n % 10) + 1]>>

\* fmt "%d" of a small non-negative integer (block index, nonce, difficulty)
FormatInt(n) ==
  IF n < 0 THEN <<"-">> \o NatDigits(0 - n)
  ELSE IF n = 0 THEN <<"0">> ELSE NatDigits(n)

\* one step of the long division of a uint64 by ten: <<quotient, remainder>>
U64DivMod10(a) ==
  LET t4 == a[4]
      t3 == (t4 % 10) * LimbBase + a[3]
      t2 == (t3 % 10) * LimbBase + a[2]
      t1 == (t2 % 10) * LimbBase + a[1]
  IN  <<(<<t1 \div 10, t2 \div 10, t3 \div 10, t4 \div 10>>), t1 % 10>>

RECURSIVE U64Digits(_)
U64Digits(a) ==
  IF a = U64Zero THEN <<>>
  ELSE LET qr == U64DivMod10(a)
       IN  U64Digits(qr[1]) \o <<DigitChars[qr[2] + 1]>>

\* fmt "%d" of a uint64 (amount, fee)
FormatU64(a) == IF a = U64Zero THEN <<"0">> ELSE U64Digits(a)

DigitValues ==
  [c \in {"0", "1", "2", "3", "4", "5", "6", "7", "8", "9"} |->
     CHOOSE i \in 0..9 : DigitChars[i + 1] = c]

DigitValue(c) == IF c \in DOMAIN DigitValues THEN DigitValues[c] ELSE 0

RECURSIVE ParseNat(_)
ParseNat(text) ==
  IF text = <<>> THEN 0
  ELSE ParseNat(SubSeq(text, 1, Len(text) - 1)) * 10 + DigitValue(text[Len(text)])

TwoDigits(n) == <<DigitChars[((n \div 10) % 10) + 1], DigitChars[(n % 10) + 1]>>

\* Timestamp.Format(time.RFC3339Nano) of an instant in UTC.  An instant t is
\* t whole seconds after time.Unix(1577836800, 0), within that day, so the
\* text has no fraction: 2020-01-01T00:00:03Z for t = 3.
FormatTime(t) ==
  <<"2020-01-01T">> \o TwoDigits(t \div 3600) \o <<":">> \o TwoDigits((t \div 60) % 60)
    \o <<":">> \o TwoDigits(t % 60) \o <<"Z">>

\* hex.EncodeToString(sha256.Sum256(data)): the state keeps a digest as the
\* text it digests between brackets; TextBytes gives its 64 characters
Sha256Hex(data) == <<"sha256(">> \o data \o <<")">>

\* sha256.Sum256(data) as raw bytes (the digest that is signed)
Sha256Raw(data) == <<"sha256raw(">> \o data \o <<")">>

IsDigest(s) == Len(s) >= 2 /\ s[1] = "sha256(" /\ s[Len(s)] = ")"

----------------------------------------------------------------------------
(* Strings as bytes, and crypto/sha256 on them.                            *)


\* the printable characters of ASCII in the order of their codes: 32 to 95,
\* then 97 to 126
Ascii ==
  <<" ", "!", "\"", "#", "$", "%", "&", "'", "(", ")", "*", "+", ",", "-", ".", "/",
    "0", "1", "2", "3", "4", "5", "6", "7", "8", "9", ":", ";", "<", "=", ">", "?",
    "@", "A", "B", "C", "D", "E", "F", "G", "H", "I", "J", "K", "L", "M", "N", "O",
    "P", "Q", "R", "S", "T", "U", "V", "W", "X", "Y", "Z", "[", "\\", "]", "^", "_",
    "a", "b", "c", "d", "e", "f", "g", "h", "i", "j", "k", "l", "m", "n", "o",
    "p", "q", "r", "s", "t", "u", "v", "w", "x", "y", "z", "{", "|", "}", "~">>

\* the byte that encodes a character
CharCode ==
  [c \in {Ascii[i] : i \in 1..Len(Ascii)} |->
     LET i == CHOOSE k \in 1..Len(Ascii) : Ascii[k] = c
     IN  IF i <= 64 THEN 31 + i ELSE 32 + i] @@ <<>>

\* the characters of the atoms that stand for more than one character
Spelling ==
  ("coinbase" :> <<"c", "o", "i", "n", "b", "a", "s", "e">>)
  @@ ("forged" :> <<"f", "o", "r", "g", "e", "d">>)
  @@ ("fork" :> <<"f", "o", "r", "k">>)
  @@ ("sig(" :> <<"s", "i", "g", "(">>)
  @@ ("sha256(" :> <<"s", "h", "a", "2", "5", "6", "(">>)
  @@ ("sha256raw(" :> <<"s", "h", "a", "2", "5", "6", "r", "a", "w", "(">>)
  @@ ("2020-01-01T" :> <<"2", "0", "2", "0", "-", "0", "1", "-", "0", "1", "T">>)
  @@ ("04f8a1c2d3e4f5a6b7c8d9e0f1a2b3c4d5e6f7a8b9c0d1e2f3a4b5c6d7e8f9a0b1c2d3e4f5a6b7c8d9e0f1a2b3c4d5e6f7a8b9c0d1e2f3a4b5c6d7e8f9"
        :> <<"0", "4", "f", "8", "a", "1", "c", "2", "d", "3", "e", "4", "f", "5", "a", "6",
             "b", "7", "c", "8", "d", "9", "e", "0", "f", "1", "a", "2", "b", "3", "c", "4",
             "d", "5", "e", "6", "f", "7", "a", "8", "b", "9", "c", "0", "d", "1", "e", "2",
             "f", "3", "a", "4", "b", "5", "c", "6", "d", "7", "e", "8", "f", "9", "a", "0",
             "b", "1", "c", "2", "d", "3", "e", "4", "f", "5", "a", "6", "b", "7", "c", "8",
             "d", "9", "e", "0", "f", "1", "a", "2", "b", "3", "c", "4", "d", "5", "e", "6",
             "f", "7", "a", "8", "b", "9", "c", "0", "d", "1", "e", "2", "f", "3", "a", "4",
             "b", "5", "c", "6", "d", "7", "e", "8", "f", "9">>)

\* the bytes of one atom
AtomBytes(a) ==
  IF a \in DOMAIN Spelling THEN [i \in 1..Len(Spelling[a]) |-> CharCode[Spelling[a][i]]]
  ELSE <<CharCode[a]>>

\* the parts[lo], ..., parts[hi] joined
RECURSIVE Concat(_, _, _)
Concat(parts, lo, hi) ==
  IF parts = <<>> \/ lo > hi THEN <<>>
  ELSE IF lo = hi THEN parts[lo]
  ELSE Concat(parts, lo, (lo + hi) \div 2) \o Concat(parts, ((lo + hi) \div 2) + 1, hi)

\* the bit-wise AND of two n-bit numbers
RECURSIVE BitAnd(_, _, _)
BitAnd(a, b, n) ==
  IF n = 0 THEN 0
  ELSE ((a % 2) * (b % 2)) + (2 * BitAnd(a \div 2, b \div 2, n - 1))

\* & of two bytes, tabulated: the entry of a and b is at 256 a + b + 1
ByteAnd == [i \in 1..65536 |-> BitAnd((i - 1) \div 256, (i - 1) % 256, 8)] \o <<>>

\* & and ^ of two 16-bit halves
And16(a, b) ==
  (ByteAnd[((a \div 256) * 256) + (b \div 256) + 1] * 256)
    + ByteAnd[((a % 256) * 256) + (b % 256) + 1]

Xor16(a, b) == (a + b) - (2 * And16(a, b))

\* a uint32 is <<high half, low half>>
W32And(a, b) == <<And16(a[1], b[1]), And16(a[2], b[2])>>

W32Xor(a, b) == <<Xor16(a[1], b[1]), Xor16(a[2], b[2])>>

W32Not(a) == <<65535 - a[1], 65535 - a[2]>>

\* + of uint32, wrapping at 2^32
W32Add(a, b) ==
  LET lo == a[2] + b[2]
  IN  <<(a[1] + b[1] + (lo \div 65536)) % 65536, lo % 65536>>

PowersOfTwo ==
  <<2, 4, 8, 16, 32, 64, 128, 256, 512, 1024, 2048, 4096, 8192, 16384, 32768, 65536>>

\* bits.RotateLeft32(a, -n), 0 < n < 32
RotateRight(a, n) ==
  IF n = 16 THEN <<a[2], a[1]>>
  ELSE LET h == IF n > 16 THEN a[2] ELSE a[1]
           l == IF n > 16 THEN a[1] ELSE a[2]
           p == PowersOfTwo[IF n > 16 THEN n - 16 ELSE n]
           q == PowersOfTwo[16 - (IF n > 16 THEN n - 16 ELSE n)]
       IN  <<(h \div p) + ((l % p) * q), (l \div p) + ((h % p) * q)>>

\* a >> n, 0 < n < 16
ShiftRight(a, n) ==
  LET p == PowersOfTwo[n]
      q == PowersOfTwo[16 - n]
  IN  <<a[1] \div p, (a[2] \div p) + ((a[1] % p) * q)>>

\* the round constants _K and the initial state of crypto/sha256
RoundConstants ==
  <<<<17034, 12184>>, <<28983, 17553>>, <<46528, 64463>>, <<59829, 56229>>,
    <<14678, 49755>>, <<23025, 4593>>, <<37439, 33444>>, <<43804, 24277>>,
    <<55303, 43672>>, <<4739, 23297>>, <<9265, 34238>>, <<21772, 32195>>,
    <<29374, 23924>>, <<32990, 45566>>, <<39900, 1703>>, <<49563, 61812>>,
    <<58523, 27073>>, <<61374, 18310>>, <<4033, 40390>>, <<9228, 41420>>,
    <<11753, 11375>>, <<19060, 33962>>, <<23728, 43484>>, <<30457, 35034>>,
    <<38974, 20818>>, <<43057, 50797>>, <<45059, 10184>>, <<48985, 32711>>,
    <<50912, 3059>>, <<54695, 37191>>, <<1738, 25425>>, <<5161, 10599>>,
    <<10167, 2693>>, <<11803, 8504>>, <<19756, 28156>>, <<21304, 3347>>,
    <<25866, 29524>>, <<30314, 2747>>, <<33218, 51502>>, <<37490, 11397>>,
    <<41663, 59553>>, <<43034, 26187>>, <<49739, 35696>>, <<51052, 20899>>,
    <<53650, 59417>>, <<54937, 1572>>, <<62478, 13701>>, <<4202, 41072>>,
    <<6564, 49430>>, <<7735, 27656>>, <<10056, 30540>>, <<13488, 48309>>,
    <<14620, 3251>>, <<20184, 43594>>, <<23452, 51791>>, <<26670, 28659>>,
    <<29839, 33518>>, <<30885, 25455>>, <<33992, 30740>>, <<36039, 520>>,
    <<37054, 65530>>, <<42064, 27883>>, <<48889, 41975>>, <<50801, 30962>>>>

InitialDigest ==
  <<<<27145, 58983>>, <<47975, 44677>>, <<15470, 62322>>, <<42319, 62778>>,
    <<20750, 21119>>, <<39685, 26764>>, <<8067, 55723>>, <<23520, 52505>>>>

\* the message schedule: w[t] for t in lo..hi appended to w
RECURSIVE Schedule(_, _, _)
Schedule(w, lo, hi) ==
  IF lo = hi
  THEN LET x == w[lo - 15]
           y == w[lo - 2]
           s0 == W32Xor(W32Xor(RotateRight(x, 7), RotateRight(x, 18)), ShiftRight(x, 3))
           s1 == W32Xor(W32Xor(RotateRight(y, 17), RotateRight(y, 19)), ShiftRight(y, 10))
       IN  Append(w, W32Add(W32Add(w[lo - 16], s0), W32Add(w[lo - 7], s1)))
  ELSE LET left == Schedule(w, lo, (lo + hi) \div 2)
       IN  IF Len(left) < hi THEN Schedule(left, ((lo + hi) \div 2) + 1, hi) ELSE left

\* the rounds lo..hi of the block function on the working variables v
RECURSIVE Rounds(_, _, _, _)
Rounds(v, w, lo, hi) ==
  IF lo = hi
  THEN LET a == v[1]
           e == v[5]
           S1 == W32Xor(W32Xor(RotateRight(e, 6), RotateRight(e, 11)), RotateRight(e, 25))
           ch == W32Xor(W32And(e, v[6]), W32And(W32Not(e), v[7]))
           t1 == W32Add(W32Add(W32Add(v[8], S1), ch), W32Add(RoundConstants[lo], w[lo]))
           S0 == W32Xor(W32Xor(RotateRight(a, 2), RotateRight(a, 13)), RotateRight(a, 22))
           maj == W32Xor(W32Xor(W32And(a, v[2]), W32And(a, v[3])), W32And(v[2], v[3]))
       IN  <<W32Add(t1, W32Add(S0, maj)), a, v[2], v[3], W32Add(v[4], t1), e, v[6], v[7]>>
  ELSE LET left == Rounds(v, w, lo, (lo + hi) \div 2)
       IN  IF Len(left) = 8 THEN Rounds(left, w, ((lo + hi) \div 2) + 1, hi) ELSE left

\* the block function: one 64-byte block, as 16 words, into the state h
Compress(h, words) ==
  LET v == Rounds(h, Schedule(words, 17, 64), 1, 64)
  IN  [i \in 1..8 |-> W32Add(h[i], v[i])]

\* the message with its padding: 0x80, zeros, and the length in bits
Padded(bytes) ==
  LET n == Len(bytes)
      bits == n * 8
  IN  bytes \o <<128>> \o [i \in 1..((55 - n) % 64) |-> 0] \o <<0, 0, 0, 0, 0>>
        \o <<bits \div 65536, (bits \div 256) % 256, bits % 256>>

\* the 16 big-endian words of block k of the padded message p
BlockWords(p, k) ==
  [i \in 1..16 |-> <<(p[(64 * k) + (4 * i) - 3] * 256) + p[(64 * k) + (4 * i) - 2],
                     (p[(64 * k) + (4 * i) - 1] * 256) + p[(64 * k) + (4 * i)]>>]

\* the blocks lo..hi of p digested into the state h
RECURSIVE Digested(_, _, _, _)
Digested(h, p, lo, hi) ==
  IF lo > hi THEN h
  ELSE IF lo = hi THEN Compress(h, BlockWords(p, lo))
  ELSE LET left == Digested(h, p, lo, (lo + hi) \div 2)
       IN  IF Len(left) = 8 THEN Digested(left, p, ((lo + hi) \div 2) + 1, hi) ELSE left

\* sha256.Sum256 of a message of bytes: the digest as eight uint32
Sum256(bytes) ==
  LET p == Padded(bytes)
  IN  Digested(InitialDigest, p, 0, (Len(p) \div 64) - 1)

HexDigits == <<"0", "1", "2", "3", "4", "5", "6", "7", "8", "9", "a", "b", "c", "d", "e", "f">>

\* hex.EncodeToString of a digest: its 64 characters
HexEncode(digest) ==
  Concat([i \in 1..16 |->
            LET x == digest[(i + 1) \div 2][2 - (i % 2)]
            IN  <<HexDigits[(x \div 4096) + 1], HexDigits[((x \div 256) % 16) + 1],
                  HexDigits[((x \div 16) % 16) + 1], HexDigits[(x % 16) + 1]>>], 1, 16)

\* hex.EncodeToString of a digest, as bytes
HexBytes(digest) ==
  LET hex == HexEncode(digest)
  IN  [i \in 1..64 |-> CharCode[hex[i]]] \o <<>>

\* the atoms that open a bracket; ")" closes the innermost open one
Openers == {"sha256(", "sha256raw(", "sig("}

Outside == [open |-> 0, outer |-> ""]

\* where a text stands after each atom of text[lo..hi], from the standing
\* `base` before text[lo]: how many brackets are open, and the atom that
\* opened the outermost of them
RECURSIVE Nesting(_, _, _, _)
Nesting(text, lo, hi, base) ==
  IF lo > hi THEN <<>>
  ELSE IF lo = hi
  THEN <<IF text[lo] \in Openers
         THEN [open |-> base.open + 1,
               outer |-> IF base.open = 0 THEN text[lo] ELSE base.outer]
         ELSE IF text[lo] = ")" /\ base.open > 0
         THEN [open |-> base.open - 1, outer |-> base.outer]
         ELSE base>>
  ELSE LET left == Nesting(text, lo, (lo + hi) \div 2, base)
       IN  left \o Nesting(text, ((lo + hi) \div 2) + 1, hi, left[Len(left)])

\* []byte(s) of the string a text stands for: an atom is its characters, and
\* a digest is the 64 hex characters of the SHA-256 of the bytes of its
\* preimage; the text of a signature is spelled as it is written.  The bytes
\* of a preimage are computed before they are digested.
RECURSIVE TextBytes(_)
TextBytes(text) ==
  LET n == Len(text)
      at == Nesting(text, 1, n, Outside)
      before(i) == IF i = 1 THEN Outside ELSE at[i - 1]
      closing(i) == CHOOSE j \in i..n :
                      at[j].open = 0 /\ \A k \in i..(j - 1) : at[k].open > 0
      digested(i) ==
        LET inner == TextBytes(SubSeq(text, i + 1, closing(i) - 1))
        IN  IF Len(inner) >= 0 THEN HexBytes(Sum256(inner)) ELSE <<>>
      piece(i) ==
        IF before(i).open = 0 /\ text[i] = "sha256(" THEN digested(i)
        ELSE IF before(i).open > 0 /\ before(i).outer = "sha256(" THEN <<>>
        ELSE AtomBytes(text[i])
  IN  IF n = 0 THEN <<>>
      ELSE Concat(IF at[n].open # 0 THEN [i \in 1..n |-> AtomBytes(text[i])] \o <<>>
                  ELSE [i \in 1..n |-> piece(i)] \o <<>>, 1, n)

\* the number of leading '0' (byte 48) of a string
CountLeadingZeros(bytes) ==
  IF \A i \in 1..Len(bytes) : bytes[i] = 48 THEN Len(bytes)
  ELSE (CHOOSE i \in 1..Len(bytes) :
          bytes[i] # 48 /\ \A j \in 1..(i - 1) : bytes[j] = 48) - 1

\* The digests of block headers, tabulated.  KnownTexts holds the texts
\* whose digests are the MerkleRoot or the PreviousHash of a header, one
\* string each: a character is an atom (Shorthand gives the atoms of more
\* than one character), and # with three digits is the digest of the text
\* of that number.
Shorthand ==
  ("c" :> "coinbase") @@ ("f" :> "forged") @@ ("k" :> "fork") @@ ("s" :> "sig(")
  @@ ("r" :> "sha256raw(") @@ ("T" :> "2020-01-01T")
  @@ ("G" :> "04f8a1c2d3e4f5a6b7c8d9e0f1a2b3c4d5e6f7a8b9c0d1e2f3a4b5c6d7e8f9a0b1c2d3e4f5a6b7c8d9e0f1a2b3c4d5e6f7a8b9c0d1e2f3a4b5c6d7e8f9")

KnownTexts ==
  <<"G100000045cT00:00:01Z",
    "0T00:00:00Z#001001",
    "G100000045cT00:00:02Z",
    "0T00:00:00Z#003001",
    "G100000045cT00:00:03Z",
    "0T00:00:00Z#005001",
    "GA1003fT00:00:01Z",
    "1T00:00:01Z#00211",
    "1T00:00:01Z#00281",
    "1T00:00:01Z#00411",
    "1T00:00:01Z#00441",
    "1T00:00:01Z#00611",
    "1T00:00:01Z#00631",
    "1T00:00:01Z#007#00201",
    "1T00:00:01Z#007#00271",
    "1T00:00:01Z#007#00401",
    "1T00:00:01Z#007#004581",
    "1T00:00:01Z#007#00601",
    "1T00:00:01Z#007#006191",
    "M100045cT00:00:01Z",
    "1T00:00:01Z#020#00211",
    "1T00:00:01Z#020#00411",
    "1T00:00:01Z#020#00461",
    "1T00:00:01Z#020#00611",
    "1T00:00:01Z#020#006591",
    "M5045cT00:00:01Z",
    "1T00:00:01Z#026#00201",
    "1T00:00:01Z#026#00211",
    "1T00:00:01Z#026#00401",
    "1T00:00:01Z#026#00411",
    "1T00:00:01Z#026#00601",
    "1T00:00:01Z#026#00611",
    "1T00:00:01Z#026#00641",
    "k",
    "1T00:00:01Z#026#03411",
    "1T00:00:01Z#026#03431",
    "M5345cT00:00:01Z",
    "#037#007",
    "1T00:00:01Z#038#00201",
    "1T00:00:01Z#038#002181",
    "1T00:00:01Z#038#00401",
    "1T00:00:01Z#038#004351",
    "1T00:00:01Z#038#00601",
    "1T00:00:01Z#038#006111",
    "M5045cT00:00:02Z",
    "1T00:00:03Z#045#00211",
    "M5345cT00:00:02Z",
    "#047#007",
    "1T00:00:03Z#048#002231",
    "M6045cT00:00:02Z",
    "GB99999010fT00:00:01Z",
    "#050#051",
    "1T00:00:03Z#052#00201",
    "1T00:00:03Z#052#002101",
    "M9545cT00:00:02Z",
    "B745cT00:00:01Z",
    "#055#056",
    "1T00:00:03Z#057#00241",
    "M5045cT00:00:03Z",
    "1T00:00:04Z#059#00401",
    "1T00:00:04Z#059#00411",
    "M5145cT00:00:01Z",
    "AB101sArAB101T00:00:01Z))T00:00:01Z",
    "#062#063",
    "A5045cT00:00:02Z",
    "M5145cT00:00:02Z",
    "#066#063",
    "M9845cT00:00:02Z",
    "#068#056",
    "#007#007",
    "#069#070",
    "M5145cT00:00:03Z",
    "#072#063",
    "M5345cT00:00:03Z",
    "#074#007",
    "A5045cT00:00:04Z",
    "M5045cT00:00:04Z",
    "A5045cT00:00:05Z",
    "M5045cT00:00:05Z",
    "1T00:00:01Z#026#002121",
    "2T00:00:01Z#007#00811",
    "2T00:00:01Z#007#00911",
    "2T00:00:01Z#007#00961",
    "2T00:00:01Z#007#01011",
    "2T00:00:01Z#007#01111",
    "2T00:00:01Z#007#01211",
    "2T00:00:01Z#007#01311",
    "2T00:00:01Z#007#01401",
    "2T00:00:01Z#007#01501",
    "2T00:00:01Z#007#01561",
    "2T00:00:01Z#007#01601",
    "2T00:00:01Z#007#01711",
    "2T00:00:01Z#007#01801",
    "2T00:00:01Z#007#01911",
    "2T00:00:01Z#007#02111",
    "2T00:00:01Z#007#021441",
    "2T00:00:01Z#007#02211",
    "2T00:00:01Z#007#02311",
    "2T00:00:01Z#007#02411",
    "2T00:00:01Z#007#02501",
    "2T00:00:01Z#007#02711",
    "2T00:00:01Z#007#027231",
    "2T00:00:01Z#007#02811",
    "2T00:00:01Z#007#028251",
    "2T00:00:01Z#007#02911",
    "2T00:00:01Z#007#029231",
    "2T00:00:01Z#007#03011",
    "2T00:00:01Z#007#03091",
    "2T00:00:01Z#007#03101",
    "2T00:00:01Z#007#03111",
    "2T00:00:01Z#007#03211",
    "2T00:00:01Z#007#03311",
    "2T00:00:01Z#007#03511",
    "2T00:00:01Z#007#03611",
    "2T00:00:01Z#007#036161",
    "2T00:00:01Z#007#03901",
    "2T00:00:01Z#007#04011",
    "2T00:00:01Z#007#040191",
    "2T00:00:01Z#007#04101",
    "2T00:00:01Z#007#04211",
    "2T00:00:01Z#007#04301",
    "2T00:00:01Z#007#04411",
    "2T00:00:01Z#007#04611",
    "2T00:00:01Z#007#04911",
    "2T00:00:01Z#007#049631",
    "2T00:00:01Z#007#05801",
    "2T00:00:01Z#007#058521",
    "2T00:00:01Z#007#06011",
    "2T00:00:01Z#007#06111",
    "2T00:00:01Z#00801",
    "2T00:00:01Z#00901",
    "2T00:00:01Z#00971",
    "2T00:00:01Z#01001",
    "2T00:00:01Z#01101",
    "2T00:00:01Z#01201",
    "2T00:00:01Z#01301",
    "2T00:00:01Z#01411",
    "2T00:00:01Z#01511",
    "2T00:00:01Z#015371",
    "2T00:00:01Z#01611",
    "2T00:00:01Z#01701",
    "2T00:00:01Z#01811",
    "2T00:00:01Z#01901",
    "2T00:00:01Z#02101",
    "2T00:00:01Z#021341",
    "2T00:00:01Z#02201",
    "2T00:00:01Z#02301",
    "2T00:00:01Z#02401",
    "2T00:00:01Z#02511",
    "2T00:00:01Z#02701",
    "2T00:00:01Z#027131",
    "2T00:00:01Z#02801",
    "2T00:00:01Z#028101",
    "2T00:00:01Z#02901",
    "2T00:00:01Z#029101",
    "2T00:00:01Z#03001",
    "2T00:00:01Z#030121",
    "2T00:00:01Z#03101",
    "2T00:00:01Z#03111",
    "2T00:00:01Z#03201",
    "2T00:00:01Z#03301",
    "2T00:00:01Z#03501",
    "2T00:00:01Z#03601",
    "2T00:00:01Z#036231",
    "2T00:00:01Z#03911",
    "2T00:00:01Z#04001",
    "2T00:00:01Z#040241",
    "2T00:00:01Z#04111",
    "2T00:00:01Z#04201",
    "2T00:00:01Z#04311",
    "2T00:00:01Z#04401",
    "2T00:00:01Z#04601",
    "2T00:00:01Z#04901",
    "2T00:00:01Z#04911",
    "2T00:00:01Z#05311",
    "2T00:00:01Z#05401",
    "2T00:00:01Z#054201",
    "2T00:00:01Z#05811",
    "2T00:00:01Z#05831",
    "2T00:00:01Z#06001",
    "2T00:00:01Z#06101",
    "2T00:00:01Z#020#00801",
    "2T00:00:01Z#020#00901",
    "2T00:00:01Z#020#009221",
    "2T00:00:01Z#020#01001",
    "2T00:00:01Z#020#01101",
    "2T00:00:01Z#020#01201",
    "2T00:00:01Z#020#01301",
    "2T00:00:01Z#020#01411",
    "2T00:00:01Z#020#01511",
    "2T00:00:01Z#020#015191",
    "2T00:00:01Z#020#01611",
    "2T00:00:01Z#020#01701",
    "2T00:00:01Z#020#01811",
    "2T00:00:01Z#020#01901",
    "2T00:00:01Z#020#02101",
    "2T00:00:01Z#020#02181",
    "2T00:00:01Z#020#02201",
    "2T00:00:01Z#020#02301",
    "2T00:00:01Z#020#02401",
    "2T00:00:01Z#020#02511",
    "2T00:00:01Z#020#02701",
    "2T00:00:01Z#020#027171",
    "2T00:00:01Z#020#02801",
    "2T00:00:01Z#020#02881",
    "2T00:00:01Z#020#02901",
    "2T00:00:01Z#020#029291",
    "2T00:00:01Z#020#03001",
    "2T00:00:01Z#020#030251",
    "2T00:00:01Z#020#03101",
    "2T00:00:01Z#020#03161",
    "2T00:00:01Z#020#03201",
    "2T00:00:01Z#020#03301",
    "2T00:00:01Z#020#03501",
    "2T00:00:01Z#020#03601",
    "2T00:00:01Z#020#036381",
    "2T00:00:01Z#020#03911",
    "2T00:00:01Z#020#04001",
    "2T00:00:01Z#020#04111",
    "2T00:00:01Z#020#04201",
    "2T00:00:01Z#020#04311",
    "2T00:00:01Z#020#04401",
    "2T00:00:01Z#020#04601",
    "2T00:00:01Z#020#04901",
    "2T00:00:01Z#020#05311",
    "2T00:00:01Z#020#05401",
    "2T00:00:01Z#020#054111",
    "2T00:00:01Z#020#05811",
    "2T00:00:01Z#020#058151",
    "2T00:00:01Z#020#06001",
    "2T00:00:01Z#020#06101",
    "2T00:00:01Z#026#00801",
    "2T00:00:01Z#026#00811",
    "2T00:00:01Z#026#00901",
    "2T00:00:01Z#026#00911",
    "2T00:00:01Z#026#00921",
    "2T00:00:01Z#026#01001",
    "2T00:00:01Z#026#01011",
    "2T00:00:01Z#026#01101",
    "2T00:00:01Z#026#01111",
    "2T00:00:01Z#026#01201",
    "2T00:00:01Z#026#01211",
    "2T00:00:01Z#026#01301",
    "2T00:00:01Z#026#01311",
    "2T00:00:01Z#026#01401",
    "2T00:00:01Z#026#01411",
    "2T00:00:01Z#026#01501",
    "2T00:00:01Z#026#01511",
    "2T00:00:01Z#026#01521",
    "2T00:00:01Z#026#01601",
    "2T00:00:01Z#026#01611",
    "2T00:00:01Z#026#01701",
    "2T00:00:01Z#026#01711",
    "2T00:00:01Z#026#01801",
    "2T00:00:01Z#026#01811",
    "2T00:00:01Z#026#01901",
    "2T00:00:01Z#026#01911",
    "2T00:00:01Z#026#02101",
    "2T00:00:01Z#026#02111",
    "2T00:00:01Z#026#02161",
    "2T00:00:01Z#026#02201",
    "2T00:00:01Z#026#02211",
    "2T00:00:01Z#026#02301",
    "2T00:00:01Z#026#02311",
    "2T00:00:01Z#026#02401",
    "2T00:00:01Z#026#02411",
    "2T00:00:01Z#026#02501",
    "2T00:00:01Z#026#02511",
    "2T00:00:01Z#026#02701",
    "2T00:00:01Z#026#02771",
    "2T00:00:01Z#026#02801",
    "2T00:00:01Z#026#028191",
    "2T00:00:01Z#026#02901",
    "2T00:00:01Z#026#02911",
    "2T00:00:01Z#026#02941",
    "2T00:00:01Z#026#03001",
    "2T00:00:01Z#026#030101",
    "2T00:00:01Z#026#03011",
    "2T00:00:01Z#026#03101",
    "2T00:00:01Z#026#03111",
    "2T00:00:01Z#026#03131",
    "2T00:00:01Z#026#03201",
    "2T00:00:01Z#026#03211",
    "2T00:00:01Z#026#03301",
    "2T00:00:01Z#026#03311",
    "2T00:00:01Z#026#03501",
    "2T00:00:01Z#026#03511",
    "2T00:00:01Z#026#03601",
    "2T00:00:01Z#026#03611",
    "2T00:00:01Z#026#036251",
    "2T00:00:01Z#026#03901",
    "2T00:00:01Z#026#03911",
    "2T00:00:01Z#026#04001",
    "2T00:00:01Z#026#04011",
    "2T00:00:01Z#026#04101",
    "2T00:00:01Z#026#04111",
    "2T00:00:01Z#026#04201",
    "2T00:00:01Z#026#04211",
    "2T00:00:01Z#026#04301",
    "2T00:00:01Z#026#04311",
    "2T00:00:01Z#026#04401",
    "2T00:00:01Z#026#04411",
    "2T00:00:01Z#026#04601",
    "2T00:00:01Z#026#04611",
    "2T00:00:01Z#026#04901",
    "2T00:00:01Z#026#04911",
    "2T00:00:01Z#026#04931",
    "2T00:00:01Z#026#05301",
    "2T00:00:01Z#026#05311",
    "2T00:00:01Z#026#05401",
    "2T00:00:01Z#026#05411",
    "2T00:00:01Z#026#054261",
    "2T00:00:01Z#026#05801",
    "2T00:00:01Z#026#05811",
    "2T00:00:01Z#026#05871",
    "2T00:00:01Z#026#06001",
    "2T00:00:01Z#026#06011",
    "2T00:00:01Z#026#06101",
    "2T00:00:01Z#026#06111",
    "2T00:00:01Z#064#01401",
    "2T00:00:01Z#064#01501",
    "2T00:00:01Z#064#015121",
    "2T00:00:01Z#064#01601",
    "2T00:00:01Z#064#01711",
    "2T00:00:01Z#064#01801",
    "2T00:00:01Z#064#01911",
    "2T00:00:01Z#064#03901",
    "2T00:00:01Z#064#04011",
    "2T00:00:01Z#064#040231",
    "2T00:00:01Z#064#04101",
    "2T00:00:01Z#064#04211",
    "2T00:00:01Z#064#04301",
    "2T00:00:01Z#064#04411",
    "2T00:00:01Z#064#04911",
    "2T00:00:01Z#064#049331",
    "2T00:00:01Z#038#00811",
    "2T00:00:01Z#038#00911",
    "2T00:00:01Z#038#00971",
    "2T00:00:01Z#038#01011",
    "2T00:00:01Z#038#01111",
    "2T00:00:01Z#038#01211",
    "2T00:00:01Z#038#01311",
    "2T00:00:01Z#038#01401",
    "2T00:00:01Z#038#01501",
    "2T00:00:01Z#038#01561",
    "2T00:00:01Z#038#01601",
    "2T00:00:01Z#038#01711",
    "2T00:00:01Z#038#01801",
    "2T00:00:01Z#038#01911",
    "2T00:00:01Z#038#02111",
    "2T00:00:01Z#038#02171",
    "2T00:00:01Z#038#02211",
    "2T00:00:01Z#038#02311",
    "2T00:00:01Z#038#02411",
    "2T00:00:01Z#038#02501",
    "2T00:00:01Z#038#02711",
    "2T00:00:01Z#038#027321",
    "2T00:00:01Z#038#02811",
    "2T00:00:01Z#038#028191",
    "2T00:00:01Z#038#029101",
    "2T00:00:01Z#038#02911",
    "2T00:00:01Z#038#03011",
    "2T00:00:01Z#038#03031",
    "2T00:00:01Z#038#03111",
    "2T00:00:01Z#038#031501",
    "2T00:00:01Z#038#03211",
    "2T00:00:01Z#038#03311",
    "2T00:00:01Z#038#03511",
    "2T00:00:01Z#038#03611",
    "2T00:00:01Z#038#036351",
    "2T00:00:01Z#038#03901",
    "2T00:00:01Z#038#04011",
    "2T00:00:01Z#038#040291",
    "2T00:00:01Z#038#04101",
    "2T00:00:01Z#038#04211",
    "2T00:00:01Z#038#04301",
    "2T00:00:01Z#038#04411",
    "2T00:00:01Z#038#04611",
    "2T00:00:01Z#038#04911",
    "2T00:00:01Z#038#049311",
    "2T00:00:01Z#038#05801",
    "2T00:00:01Z#038#058631",
    "2T00:00:01Z#038#06011",
    "2T00:00:01Z#038#06111",
    "2T00:00:03Z#045#00801",
    "2T00:00:03Z#045#00901",
    "2T00:00:03Z#045#009151",
    "2T00:00:03Z#045#01411",
    "2T00:00:03Z#045#01511",
    "2T00:00:03Z#045#01551",
    "2T00:00:03Z#045#02101",
    "2T00:00:03Z#045#02701",
    "2T00:00:03Z#045#02771",
    "2T00:00:03Z#045#02801",
    "2T00:00:03Z#045#028161",
    "2T00:00:03Z#045#03501",
    "2T00:00:03Z#045#03601",
    "2T00:00:03Z#045#03911",
    "2T00:00:03Z#045#04001",
    "2T00:00:03Z#045#040111",
    "2T00:00:03Z#067#01401",
    "2T00:00:03Z#067#01501",
    "2T00:00:03Z#067#015111",
    "2T00:00:03Z#067#03901",
    "2T00:00:03Z#067#04011",
    "2T00:00:03Z#067#040131",
    "2T00:00:03Z#048#00811",
    "2T00:00:03Z#048#00901",
    "2T00:00:03Z#048#00911",
    "2T00:00:03Z#048#01401",
    "2T00:00:03Z#048#01501",
    "2T00:00:03Z#048#015211",
    "2T00:00:03Z#048#02111",
    "2T00:00:03Z#048#02151",
    "2T00:00:03Z#048#02701",
    "2T00:00:03Z#048#02711",
    "2T00:00:03Z#048#02811",
    "2T00:00:03Z#048#02821",
    "2T00:00:03Z#048#03511",
    "2T00:00:03Z#048#03611",
    "2T00:00:03Z#048#03621",
    "2T00:00:03Z#048#03901",
    "2T00:00:03Z#048#04011",
    "2T00:00:03Z#048#04051",
    "2T00:00:03Z#052#00811",
    "2T00:00:03Z#052#00911",
    "2T00:00:03Z#052#009321",
    "2T00:00:03Z#052#02111",
    "2T00:00:03Z#052#021411",
    "2T00:00:03Z#052#02711",
    "2T00:00:03Z#052#027191",
    "2T00:00:03Z#052#02811",
    "2T00:00:03Z#052#028151",
    "2T00:00:03Z#052#03511",
    "2T00:00:03Z#052#03611",
    "2T00:00:03Z#052#036131",
    "2T00:00:03Z#057#00811",
    "2T00:00:03Z#057#00911",
    "2T00:00:03Z#057#00921",
    "2T00:00:03Z#057#01401",
    "2T00:00:03Z#057#01501",
    "2T00:00:03Z#057#015261",
    "2T00:00:03Z#057#02111",
    "2T00:00:03Z#057#02121",
    "2T00:00:03Z#057#02711",
    "2T00:00:03Z#057#02721",
    "2T00:00:03Z#057#02811",
    "2T00:00:03Z#057#02831",
    "2T00:00:03Z#057#03511",
    "2T00:00:03Z#057#03611",
    "2T00:00:03Z#057#036131",
    "2T00:00:03Z#057#03901",
    "2T00:00:03Z#057#04011",
    "2T00:00:03Z#057#04031",
    "2T00:00:04Z#059#00801",
    "2T00:00:04Z#059#00901",
    "2T00:00:04Z#059#00931",
    "2T00:00:04Z#059#01001",
    "2T00:00:04Z#059#01101",
    "2T00:00:04Z#059#01411",
    "2T00:00:04Z#059#01511",
    "2T00:00:04Z#059#015131",
    "2T00:00:04Z#059#01611",
    "2T00:00:04Z#059#01701",
    "2T00:00:04Z#059#02101",
    "2T00:00:04Z#059#021311",
    "2T00:00:04Z#059#02201",
    "2T00:00:04Z#059#02301",
    "2T00:00:04Z#059#02701",
    "2T00:00:04Z#059#02711",
    "2T00:00:04Z#059#02801",
    "2T00:00:04Z#059#028231",
    "2T00:00:04Z#059#02901",
    "2T00:00:04Z#059#029161",
    "2T00:00:04Z#059#03001",
    "2T00:00:04Z#059#030501",
    "2T00:00:04Z#059#03501",
    "2T00:00:04Z#059#03601",
    "2T00:00:04Z#059#03691",
    "2T00:00:04Z#059#03911",
    "2T00:00:04Z#059#04001",
    "2T00:00:04Z#059#040561",
    "2T00:00:04Z#059#04111",
    "2T00:00:04Z#059#04201",
    "2T00:00:04Z#059#04601",
    "2T00:00:04Z#059#04901",
    "2T00:00:04Z#059#049491",
    "2T00:00:04Z#059#05311",
    "2T00:00:04Z#059#05401",
    "2T00:00:04Z#059#054111",
    "2T00:00:04Z#059#05811",
    "2T00:00:04Z#059#058141",
    "2T00:00:04Z#073#01401",
    "2T00:00:04Z#073#01501",
    "2T00:00:04Z#073#01571",
    "2T00:00:04Z#073#03901",
    "2T00:00:04Z#073#04011",
    "2T00:00:04Z#073#040341",
    "2T00:00:04Z#073#04911",
    "2T00:00:04Z#073#049281",
    "2T00:00:04Z#075#00811",
    "2T00:00:04Z#075#00911",
    "2T00:00:04Z#075#009341",
    "2T00:00:04Z#075#01401",
    "2T00:00:04Z#075#01501",
    "2T00:00:04Z#075#015351",
    "2T00:00:04Z#075#02111",
    "2T00:00:04Z#075#021201",
    "2T00:00:04Z#075#02701",
    "2T00:00:04Z#075#02711",
    "2T00:00:04Z#075#02811",
    "2T00:00:04Z#075#03511",
    "2T00:00:04Z#075#03611",
    "2T00:00:04Z#075#03661",
    "2T00:00:04Z#075#03901",
    "2T00:00:04Z#075#04001",
    "2T00:00:04Z#075#04011",
    "2T00:00:04Z#075#04611",
    "2T00:00:04Z#075#04901",
    "2T00:00:04Z#075#05841",
    "M6045cT00:00:03Z",
    "#521#051",
    "2T00:00:04Z#522#00811",
    "2T00:00:04Z#522#00911",
    "2T00:00:04Z#522#02111",
    "2T00:00:04Z#522#02121",
    "2T00:00:04Z#522#02701",
    "2T00:00:04Z#522#02711",
    "2T00:00:04Z#522#02811",
    "2T00:00:04Z#522#028201",
    "2T00:00:04Z#522#03511",
    "2T00:00:04Z#522#03611",
    "2T00:00:04Z#522#036161",
    "2T00:00:04Z#522#04611",
    "2T00:00:04Z#522#05801",
    "2T00:00:04Z#522#05821",
    "M9545cT00:00:03Z",
    "#537#056",
    "2T00:00:04Z#538#00811",
    "2T00:00:04Z#538#00911",
    "2T00:00:04Z#538#00921",
    "2T00:00:04Z#538#01401",
    "2T00:00:04Z#538#01501",
    "2T00:00:04Z#538#015151",
    "2T00:00:04Z#538#02111",
    "2T00:00:04Z#538#02131",
    "2T00:00:04Z#538#02711",
    "2T00:00:04Z#538#02751",
    "2T00:00:04Z#538#028101",
    "2T00:00:04Z#538#02811",
    "2T00:00:04Z#538#03511",
    "2T00:00:04Z#538#03611",
    "2T00:00:04Z#538#036231",
    "2T00:00:04Z#538#03901",
    "2T00:00:04Z#538#04011",
    "2T00:00:04Z#538#04051",
    "2T00:00:04Z#538#04611",
    "2T00:00:04Z#538#049421",
    "2T00:00:04Z#538#05301",
    "2T00:00:04Z#538#054101",
    "2T00:00:04Z#538#05411",
    "2T00:00:04Z#538#05881",
    "1T00:00:03Z#065#00211",
    "1T00:00:03Z#065#00271",
    "AB301sArAB301T00:00:01Z))T00:00:01Z",
    "#072#565",
    "M5245cT00:00:03Z",
    "AB302sArAB302T00:00:01Z))T00:00:01Z",
    "#567#568",
    "1T00:00:04Z#075#00201",
    "1T00:00:04Z#075#002151",
    "1T00:00:03Z#048#00201",
    "1T00:00:03Z#057#00201",
    "1T00:00:03Z#071#00201",
    "1T00:00:03Z#071#00221",
    "1T00:00:04Z#048#00201",
    "1T00:00:04Z#048#002101",
    "#567#063",
    "#565#565",
    "#578#579",
    "#567#565",
    "#063#063",
    "#581#582",
    "#074#568",
    "#584#582",
    "#584#579",
    "M9645cT00:00:03Z",
    "#587#056",
    "#588#582",
    "#588#579",
    "M9745cT00:00:03Z",
    "#591#056",
    "#568#568",
    "#592#593",
    "M9845cT00:00:03Z",
    "#595#056",
    "#596#070",
    "1T00:00:06Z#079#00611",
    "1T00:00:06Z#079#00631",
    "1T00:00:05Z#077#00611",
    "1T00:00:05Z#077#00621",
    "1T00:00:06Z#077#00611",
    "1T00:00:06Z#077#006121">>

\* the nonces the table covers
KnownNonces == 0..64

\* A header of the table is a row of HeaderLines: the Index (one digit), the
\* instant of the Timestamp (two), the numbers in KnownTexts of the texts
\* whose digests are the MerkleRoot and the PreviousHash (three each, 000
\* for the empty string), the Difficulty (one), and for every nonce of
\* KnownNonces the number of leading '0' of
\* hex(sha256("%d%s%s%s%d%d" of the six)).
HeaderLines ==
  <<"101002000100000000110000000000000010001000100000100010000000010000000000000101004000100001000000000000000001010000000000001000000000000000000000000000101006000100010000000000000000000000000000000000000000000000000000000000000101007002100000001000000000000011011000000002000101100000100100000000000000101007004100000000000000000000000000000000000000000000000000000000001000000101007006100000000000000000001000100000000000000000000000000100110010000010101007008100000000000000000000000000000000000000000000000000002000000010010101007009100010000000000000000000000000000000000000000000000020000000000100101007010100000000000000000000000000000000000000000000000000000000000001000101007011100000000000010000000000000000000000000000000000000000000000000010101007012110000001000000000000000000000000000000000000000000000000000001000101007013100000000000000000000000000000000000000000100001000000001100000000101007014100000100000000000002000000000000001000000000000000000000000000000101007015100000101000000000000011000000000000000000000000000100000000000000101007016100000000000001000000000000000000000000000000000100000000000000000101007017100020000020000000010000000000000000000000000001000010000000000000101007018100000000000010110000000000010000001000000010000000000000000010001101007019100000000000000110000000000000010000000000000000000000000000000000101007021100000000000000000001000001000000001000000000000001000000000000000101007022110000010000000000000000000000000000000010000000000000000000000100",
    "101007023100000000100000000100001010000000000000000000000000000000000001000101007024100000000010100000000000000000000001200000000000000000000001000000101007025100000000000100000000000000000000000000000000000000000000001010000101007027100000000000000000000000000000000000010000000000000000000000000000101007028100000001000000000000000000000000000000000000000010000100000000100101007029100001000000001000010000000000000000001000100000110000000000000100101007030100000000000000001000000000000000000000000010001000000000000001000101007031100000000000000000100000010000200001000000100000000002010101001000101007032100200000000000000000000000000000000300000000000000000000000000001101007033100000001100100000000000000000000000000000000000000000000000000000101007035100000000000000000000000000000000001000000000100000000000000000001101007036101010000000000000000000010000000001000000100000000000000000000000101007039100000000000000000100000010000000010100000000000100000000001000000101007040100000000000000000000000000000000000000000000000001000000000010000101007041100100000010000000000000000000000000000000100000000000000000000000101007042110000000000001000000000000000000000000001000000000001000010000000101007043100000000000000000010000000000000000000000000000000001000000000000101007044100000000000010000000000000000100000000000000000000000000000000000101007046111000101000000000001000010000000000000000000000000000000000000000101007049100000000000000100000000000100000100000000001100000001001000000000",
    "101007053100000100000010100000000000001010000000001000000000000000100100011101007054100000000000000000010000000000000000000000000000020000000000000000101007058100000000000000000000000000000000000000001000000000000000000000000101007060100000100000000000000000011000000100000000000000000000000000000002101007061100000000000010000000000000000000000000000001000000001000001000000101008000100000000000000000000000000000000000000000000000000000000000000000101009000111000010000000200000000000000000000000000000000000000000001000020101010000100000000000000000000000011000000010000000000000000100000000100000101011000110000000000000100000000000000000000000000000000000000000000010000101012000100100000000000100001000000000000000000100001000001000000000101000101013000100000000000000000000000000000000200000000010000000000000000010000101014000100000000000000000000000001000000000000000000100000000000000000001101015000100000000000010000000000001000010000000000000100000200000000110000101016000100000000000000000000000000000100000000000101000000000000000000000101017000100000100000000000000000000000100001000000000000110000100000000000101018000100000000000000000000000000000000000000000000000000000000000000000101019000100000000001000000000010001000000000100000100000000200000010002000101021000100001010000000000000001000000000100010002000000000100000000000000101022000100000010000000000000000000000000000000100000010030000000000000110101023000100000000100000000000000000000000000000010000010000000000000000010",
    "101024000100001200030000000000000100000000000000000010000000000000000000000101025000100100000001000000000100000000000000000000000100000000000000000000101027000101000000100000000000000000000000000000000000000010000000000000000101028000100000001001000000000000000000000000001000000010000000000000000000101029000100000000000000001000000100000000001000000000100000000010000000000101030000100000000100000000000000000000000000000000100010000000000000000000101031000110000000000000000000010000000000000100000000000010000000000000000101032000100000000000000000000000100000000000000001110000100000000000000000101033000101000000000000010000000000000000000010000000000000100020000000000101035000100000000000000000000000000000000000000000000000020000000000000000101036000100000000100000000000000000000000000000000000010000000000000000000101039000100000000000010000000000000000010000000000100000000000000000001000101040000100000102001100000000000000000000110000000100000000000000010010000101041000100000010000000000010000001000010000000000010000100000000000001000101042000100000000000010000000000000000000000000000000000000000000000000000101043000100000001000000000001000000000000000000100000000000100000100000000101044000100000000000000000000000000000000000000010010000002000000000000001101046000100000000000000000101000010001000000101000000000200000000000000000101049000100000000000000000000000000000000010010000000000000000000100000000101053000100000000001000010000000000000110001000001010000000200000000000000",
    "101054000100000001000000000001000000000000000000000000000000000000000000010101058000100000000000000000000000000010000000000000000000010000001000000000101060000100000001000000000000000000000000000000000000100001000000000000000101061000110000000000000010000000000000000000000000000000000000000000000000101020002101000000000000000000000000000000000001000000000000000000000000000101020004100000010000000000000000000000000000000010000000001001010000000000101020006100000000000000000000000000000000000000000000000000000000000100002101020008101000000100000000010000000010100000000000000100000000000000000000101020009100000000000000000000000000000110000000000000000000000000100010000101020010100000000000000000000000100000000000000000000000000000010000000100101020011101000000000000000010000000000000000001000000000000000000000100000101020012100100000000000001000000000000000000000000000000000000000000000000101020013100000000000000000000000010000000000000110000000000000000000000100101020014100000000000100000000002001000001000010000000000000000000000000000101020015100000000000000000010000000000001100001011000000000000000000000010101020016100001000000001001000000000000000000000000000010000000000000000001101020017100100000000100000000000000000000000000000000000100000100000000000101020018100000020000000001000000000000000000000000000000000000000000000000101020019100000000010000000100000000000000000000001000010001100000000000000101020021100000000000000000000000000000001000000011000000000000000000000000",
    "101020022100000000000000000000000000000000000000010000000000010000000000001101020023101000000000000000000000000000000000000000000000000000000000100000101020024100000000000001000000000000000000010000000000000000100000000000000101020025100000000000000000000000010000000000100000000000000000000000010000101020027100000000100000000000000000100000000000000000000000010000000000000101020028100010000000000000010000000000000001002000000000000100000010000000101020029100100000000000000010000000000000001000000000000000000010000000000101020030100000010000001000000000000000000000000000000000100000000100000200101020031100010001000000000000000000000000000000000000010000000000000000000101020032100000000000000000000000000000000000000000000000000000000000000000101020033100000000000000000000010000000000000000000000000100000100000000010101020035100000000010001000000000000000000000000000000000000000000000000000101020036100000000000000000010000000000000000000000100000000200000000000000101020039110000000000000000100002000000001000000000000100001000010000000000101020040100000000000100010000000000000000000000000000000000000000100000000101020041100000000000000000000000000000000001000100000000000000000000000000101020042101000000000000000000000000000000000000000010000000000000001000000101020043100000000000000000000000000000000000000000000000000000000000010000101020044100001000100000000000000000000000000000000000000000000000001000001101020046100000000000000000000000000001000000000000000000000000000000000000",
    "101020049100100000000000000000000000000000000000000000000000000000000010000101020053101001000001000000000001000000000020000100000000100000000000100000101020054100000000001010000000102000000000010000000000000000000100000000000101020058100010000000000000001001000000000000000000000000000000000100000000101020060100000000000000000200000000000000010000000000001000000000000000000101020061100100000001200000000000000000000000000000000000000000000110000100101026002110000000000010000000100000000000000000000000010000000000000000001101026004110000000010000001000000000000000000000010000000000000000000000000101026006100001000100000000100000010000000001000000100000020000000000000000101026008100000100000000000000000000000000000200000001000000000000000000000101026009100000000000000000100000000000000000000000000100000000301000000000101026010100010100000001000000000000000000000002100000000000000000000000000101026011100100010000000100000000010010000000000000000000000000100000000000101026012100000000000003000001000000000000000000000000000000012001000000000101026013100001001000000000000000000100100000001000001000000000000000000000101026014100000000000000000000000000000001000000102001000000000000000000011101026015100010000000000000000000000001000000000010010000110000000000000001101026016100000000000000000000000000001000000000000000000000000000000000000101026017100100001100000000000000000000000000000010000000000000000000100000101026018100000000000001000000000001001000000000000000000000000000000100000",
    "101026019100010000100000010000001000000000000000000000000000000000000000000101026021100010000100010001000000000000000000000000200000000000000000000000101026022100000000001000000000000100000000000000000000100000000100000100000101026023100000000000000000000000000000000000000000000000000000011000000000101026024100000000100000000200000000000000000000000000000000010000000000000101026025100101010000000000000000000000000000000000000000000000000000000000101026027100000000000000000000000000000000000000001000000001000100000000010101026028100000000000000000000000000000000000000000000000000000000000000000101026029100000000200000000000000000000000000010000000000100000000010000000101026030100100000000000000010000000010000000000000000000001000000000000011101026031100000000100000001000000000000100000000000000000001000000000000000101026032100000000000000000000001000000000000000000000010000010100100000000101026033100000000000000000200000000000000000000000000000000000000010000010101026035100010000001000000000000000000000000000000000000000010000000000000101026036110000100000000000002000000000000000000000010000000000000000100100101026039100000010000000010000000000010000000000000000000000002000000000000101026040110000000001000000000000000000000010000000000000000000000000000000101026041100000000000000000100000001000000000000000000000000000000000000000101026042100000000000000100000000000000101000010000000000000000000000000000101026043100000000000000010000000000010000000000000010000000000010000010020",
    "101026044100000000000000000000010000000000001000000000000000010000000000000101026046100000000000000000000000000000000000001010001000000010000000000000101026049100001000000000000000000000001001000000000000000001010100000000000101026053100000000000000010000100000000100000000000000000000000000000000100101026054100010000000000000000000000000000000000000000000000000000000000100101026058100000000000000000000000000010000000000000000000000000000000200000101026060100000000000000000000000000000001000000000110000100000000000000000101026061100001000000000000000000000000010000000001000000000000000000100000101026034100011000000000001100000000000000000100000020000000000000000000000101064002100000010000000000000000100000001000000000001000000000000000000000101064004100000000000000000000000000000000000000000000000000000000000000000101064006100000010000100000000000000000000000000100000000000000000000000000101064008100000000000000010000000000000001001000000000000000100011001000001101064009100001000000000000000000000000000001000000000000000000000000000000101064010100000001000000000000000010000001000000000000000000000000000000000101064011110000000000000000000010000000000000000000000000000000000000000001101064012100001010000000000001000000010000000010000001000000100000000000000101064013100000010001000000000000001000000001000000000000000000000000010000101064014100000000000000000000000001000000000000000100000000000000001000000101064015100001001000000000000000000000000000000000000000000000000000000010",
    "101064016101000000000010000002000100000000000000000001000000000000010000000101064017100000001000000010000000000000000000000010100000000000000000000000101064018100000000000000000000010000000000000100000000000000000100000000000101064019100000000000000000000000000010000000011010000000000010000000000000101064021100010100000010020001001010010000000100000000000000100000000100010101064022110000000010000000000010100000000010000000000000010000000000000000101064023100010010000010000001000000000000000000000000000000000100000000000101064024100010000000002000100000000000000000000000000000000000000000000000101064025100000000100012000000000000000000000000000000000000000010000000000101064027120000000000000000010000000000000000000000000000000000000001000000101064028110000000010000000000000000000000100000000000000000000000010000000101064029100000000000000000000000000000000000000000000000000000000000000000101064030100000000000000001000010000000000000001000000000000000000000000000101064031100000001000000000000000010000000001000000000001000000000000000000101064032100020000000000000000010000000000000000000000000000000000000000000101064033100100000000000102000000001000000000000000000000000000000000000000101064035100000010000010010000000000000000000010000100000000000000001000000101064036100110000000000000010000000000000000000100000000000000000001000000101064039100000000000100000000000010100000000100000000001100000000000000000101064040100010000000000000100000000000000010000000000000000000000000100000",
    "101064041100000000001000000000100000000000001000010000000000000000001000000101064042101000000100000000000000000010000000000000000000012000000000120000101064043100010001000000000000001100000100000000100000000000000000000000110101064044100000000000100000001000000000010000000000001000000000000200000011101064046100000000000000000000000010000000000000000000000000000010000000000101064049100000000000100000000000000000000001000000000000000000000000000000101064053100000100000000000000000000002000000000000000000000000000001000001101064054100000000000000000000000000100000001000000000000000000000000000000101064058100000000000000000000000100000000000000010000000000000000000000000101064060100000000000000000000000000000000000000000000000010000000000000000101064061100001000000000000100000000000000010000000000000100000000000000000101064034100001000000000001000000000010000000000001000000000100000000000100101038002100000000000000000010000000000000000000000000000000000001000000000101038004100000000000000000000000000000000000100200000000000010000000000000101038006100000000000100010100001000000000000000002100000000000001000000000101038008110100000000000001000000000000011000000000000100000000000010000000101038009100000000000000000000010000000010000000000010000010000000000001000101038010100000000000000100000000000000020001000020000000000010000000000000101038011100000001000000000000000000000000000000000010000000000000000000000101038012100000000000001001000000000000010000000000000100000000110100000000",
    "101038013100000000000000000000000000001000001000001010010000000000000000000101038014100000100000000000000000000010000000000000030000000000000000000100101038015100000000000000000010000000010000000000000000000000001000000000000101038016101011000000000000000000000000001000000001000000000000000000000000101038017100001000000000000000000000000000000010000000001000000000100000000101038018100000000000010000000000000000000000000000000100000000000000000000101038019100000100101000001000000000002000001000000000000000000000001000000101038021100000000000000000000100000010000000000000000000200000002000000000101038022100000000000000000000000000000000000000000000000001000000000000000101038023100000000000000000000010000000000000000000000000000000000000000000101038024102000001000000000001000010000010000001000000000000000000000000000101038025100000000000010000000001000001000000000000000000001000000000000000101038027100000000000000001001001000000000000000000000000000000001000001001101038028100000000000000000000000000000000000000000100100000000000000000000101038029100000100000000000000000100000000001000000000000000100000000000000101038030100000000000000000000000000000000000000001000010100000000001000000101038031100000000000000000000000000001010000000000000001000000000000000000101038032100000000001000011000000010000000000000010000000000001000000001010101038033100000001000000000100011001000000000002000000000000000010000002000101038035100010000010000100000000000000100100000000000000000000000000000000",
    "101038036100010000001000100000000000000100000000000000000000100100000000000101038039100000000000010000000000000000000000000000000000000000000010000000101038040100000000000000000000000000000000000000000000000000000000000000000101038041100000000000000000000000000000000000111000000000000000000000000000101038042100000000000000000000000000010000000000000000001000020000000000000101038043101000000000000000000000000000000000000000000000000000000000000000101038044100000000100000000000000000000010100100000000000000000000000000000101038046100101000000000000000000000000000000000000000000000000000000000000101038049100000000000000000000000000000000200100000000000000000000000000001101038053100000010000000000000000000000001010000010000001000000000000000000101038054100000100000000000000011000000000000000000000100000000000000010000101038058110000000000000000000000010000000000000000000110000000010000000000101038060110000010000000010000000000000000000000000000000000010000100000000101038061100110000000000000000000100000000000000000010000100001000000000000103065002100000001000000000000000000000000000000000000001000000000000000000103045002100000000000000000000000000000000000000000000000000000000000000000103067002100000000000000000000000000000000000000000000001000000000000000000103048002100000000000000000000000100000000000000000100011000000000101000000103052002100000000001000000010010000000000000000000000100100000001000000000103057002100001000000000000000000000010000000000000100010000000000000000000",
    "103071002100101000000000000000000000000000010000000000000000010000000000000104059004120100100000000000000000000000001001000000100000000000020000000000104073002100001000010000000000000000000000000000100000100000000000200100100104048002100000000001000000000000000000000000000000000000000000000010000000104075002100000000000000011001000000000000000000000101000001000000000000000105076002101000000000000000000000310000001000000000000000000000000000000000105077006100100000000200000000000110000000000000000000001000000000000000000106076002100000000010000000001001000000000000000000000001000000000000010002106078002100000000000000000001000001000000000000000001100000100000100000000106077006100000000000010000000000000000000000000010010100000000000000000010106079006100020000000000000000000000000000000000000000000000000000001010001201007008100000000000000000000000100000000000000000000000000100000000001000201007009100000010000000000000000010100011000000000000001000000000001000000201007010110010000000000000000000000000000000010000000100000000000000000000201007011100000000001000100000000000000000001000000000000000000000000100000201007012100010000000001000000000100000000000100000000000000000000000000000201007013100000001000000000010001010000000000000000000000000000100000000000201007014100010000000000000000001000000020000000000000000000000000000100000201007015100000010000000000000000000100000000000000000000000000000000000000201007016100000000000000001100000000001000000000000000000000000000000000001",
    "201007017100000000000000000000000000000000000000100100000000000000000000000201007018100100000100020010100100000000010000000001000000000010000100100000201007019100000010000000000000000000000000000010000000000000000000000010000201007021100000000000000000000000000000000000000000000100000000000000000000201007022100000000000010000020000000000000000000010001000000001000000000000201007023100000000000000000001000000000000000000000000000000010000000000000201007024100000000000000000000110000000010000000001000100100000000100001000201007025100001000000000001000000000000000001000000000000000100000000000000201007027100000000000000000000000100000000000000000000000000000000000000000201007028100000000000000000000000001000000000000000000000010000000000000000201007080100000000000000000000000000000000000100000000000100000000000100000201007029100000000000000000000000100000000001010000010000000000000000000011201007030100000000010000000000010000000000000000000100000120000001000000000201007031110000000000000000000001000000000000000000000000001000000000000000201007032100000000000000000000000000000010000000000100010010000000000000000201007033100000000001000000000000000001000000000000010000000000001000000000201007035100000000000000000001000000000000000000000000000000000100000000000201007036100000000000000001000000000000000000000000000000000000001000000000201007039100000000001100000011002000010000001000000000010000000000000000000201007040100000000000000000001000000110000000001000000110000100000100000100",
    "201007041120100000000000000001000000001000001000001000000100000000010000000201007042100100000100010000010000000000000001100000000000001200000000100000201007043100000000000100100000000000000000000000010000000000001010000000100201007044110100000000001000000020000000000000000000100000010001000010000000201007046100000001000000000000000000000001000000000000000100100000000001000201007049100000000000000000000000000000000000000000000000000000000000000010201007053110010000000001010000000000010000000000010000100000000000000000000201007054100000000000000010000000000000000100000000000000001100000000000000201007058100000000000000000000000000000000000000000000000000001000010000000201007060100000000000000000000000000000000000001000001020000000000000001000201007061100000000000010000000000000000000000000000000011001000010000100001201007081100000000000020000000000010000000000000000000000000000000000000000201007082100000000010100000000000000000000000000000000000000000000100000000201007083100100000001000001000000001000000000000000000000000000000001000000201007084100000000000000000000020000000000010000010000001000000000000000000201007085100000000000000010000000000000000000000000000000000000000000000000201007086100000010000000000000001000000000000000001000001000020000001000010201007087100000000000000000001000000100000000000000000001000000000000000000201007088100000000000000000001001000000000000000000000000010000000000000000201007089100000100000000100000000000000000100000000000000000000100000010010",
    "201007090100000100000000000000000000000000000000000000001100000100000000000201007091100000000000000010000000000101000001000000000000000000000000000000201007092100000001000000000000000100001000000001000000000000000000000000000201007093100000000000000100000000000001002000010000000000000000100000000000201007094100000000000000000000200000010000000000000010000000000000000000000201007095110000000000000000010000000021000200000000000000000000200020000010201007096100000001000000000000000000000000010100000000000000000100000000000201007097100000000001000000000000000000000100000000000000000000000000010000201007098100000000000000000000000000000000000000000001000000000000010000000201007099110010000010000000001000010000000000000000000000000000000001000000201007100100000010000000000000000000000000000000001010000001000000000000000201007101100000100000000100000000000000000000000000000000000000000010100010201007102100000000000000000000000000000000000000000000000000000000000000000201007103100000100000000000000000000000000000010010000000000000000001000100201007104100000000000000001000000100000000000000000000000000010100000000000201007105100100010000000000000000000100001001000000000000001000000000000000201007106100000000000000000000000010000000000000000010000000100000000000000201007107100000000000000200010000000001000000000100000000000000100001000000201007108100000000000000000010001100000000000000000010000000010000000000000201007109100001000000000001000000000000000000000000000000000000000000000001",
    "201007110100000000000000000000000000001000000000000000000000000000000000001201007111110000010000000000000000000100000000000000010000000000100000010000201007112100000000000001000000000000000000000000000000000000000100100001000201007113100000000000000000000000000000000000000000000000001000000000000000201007114100000000000000000000000000001000000000000000000000000000002000000201007115100000000000000000000000000000000000000010000010000000000000000001201007116100010000000000000000100010010000000100000000000000000000010000000201007117100000000000000001000000000000000000000000001000010000000000000000201007118101000000100000000000100000000000000000011000000000000000000000000201007119100000000000000000000010000000000000000000000000000000000000000001201007120100000001000010000000000001001000000000000000000000000001000000000201007121100000000000000100000000100000000010000000000000000000000000000000201007122100000000001001000000000000000000000000000000000000000000000000000201007123110001000000000000010000000010000000100010000000000000000100000000201007124100100000000000000000000000000000001000000000000000000000000000000201007125100000000000000000000000010000001000000000100000000000000000000000201007126100000000001010000000000100000000000000000000000000000000000010000201007127100200000001000001000000000000010000000000000000000000000000000000201007128100000000000000000000000001000000000000001000001000000000000000000201007129100000000000000000000000000000000000000000000000000100000000010000",
    "201007130100000000000000000000000000000000000000000100010000100000000000000201007131100000000000000000000000000000000000000020000000000100000000100000201007132100000000011000000000000000100000000000001000000000010000000000000201007133100000000000000000000000000000000001000000000000000210000000000000201007134100000000000000000000000000000000000000000000000000000000000000000201007135110000000000000000000000000000000000000000000000000000000000000001201007136100001000000100000010000001000000000000000000100000000000000000000201007137100000000100000000000000000000000000000010000001010000000000000000201007138100000000000000000000000000000000000000000000000100000000000000010201007139110000000000000000000000000000001000000000000000000000000200000000201007140100000000001000000000010000100000001100000000000000001000000000000201007141100000000000000000000000000000020000000000000000000000010000000010201007142100000000000000000000010020000010100000100000000000000000010000000201007143110000000000000010000000000000000000000000000000000000000001000010201007144100000000000000000000000000000000000001010010001000010000000011001201007145110000000000010000000000000000000000000000000000000000000000000000201007146110000000000100000001000000000000000000000010000000000000000100000201007147100000000000011000010001000000000000100000000000003000000000000000201007148100000000000100000000000000000000100010100000000000000000000000000201007149100001001000000010000000000001000000000000000010000000100000000100",
    "201007150100010010100001000000100100010001000011000200000000000000000010000201007151100000000000000000000000000000000000010000000000100000000100000000201007152100100000000000000100000000000000000000000000000001000011000100000201007153100000100000000001000001000000000000000000000000000000000000000000201007154110000000000000000000000000000000001000000000000000000000000000000201007155100000000000000000001000010000000000000000000000000000000000000000201007156100000000000000100001000000000000000000000000000000000000000000001201007157100110000000000000000000000100000000000000000000001000101000001000201007158100000011000000000000000010000000000010000000000000000001000000000201007159101000000000000000010000000000000000000000000000000001000000000000201007160100000000000000000000000000000010000000000101000202200000000010000201007161100000000001010000000100000101000000000000000000000000000000000000201007162100000000000010001000000000000000000000000000000000000000000000000201007163100000000000000000010000000000000000100000000000000000000000000000201007164100000001000010000000000000000000000000000000000000000001000000000201007165100000000000000000000000000000020000000000000010001000000000000100201007166100000000010000000000000000000000001000000000000000000010100010000201007167100010000000000000000000100100000000000000001000010000000001000100201007168100000000000001000000100000010000000000000000100001000100000100000201007169100002000000001010000000010000000000000000000001000000010100000000",
    "201007170100000000000000101000000000000000000000000000000000000000000000000201007171100000000000100000000000000000001000000000000000000000000000000000201007172100000001000000000001001010000100000220000000000000000000000010001201007173100000000000000001000000000000000000000100000000000000000000000000201007174101000000000000000000000000100000000000000000000000100000000000000201007175101000000002000000000000010000000000000000000000001000000000001000201007176110000000000000000000000000001000000000000000000010020000000000000201007177100000000000000000000000000100010000000000000000000000000100000000201007178100010000000000010000000000020000000000000000000000000000000000000201007179100003000000001000000001100000000010000000000000000000000000110100201007180100000000000000010000001000001000000000000000000000000010000000000201007181100000000000000000100000000000100000000000002000000011101001000000201007182100000000000010000000000000001000000000000000000000000001000000000201007183100000000000000000000000000100001000000000001000000000000000010000201007184101000001000000000110000000000000010010000000000000010000001000000201007185101000100001000000000000100100000000000000000010000000000000000000201007186100000000000000010000000001000001000000000000100100010000001000000201007187100000000001000000000000000000000000000000000011001000000000000000201007188100000100001000000001000001000000000000000000000000000000000000000201007189100000000000000000001000100010000000000000000000000000000000000000",
    "201007190110001000000000002000000120000000000000000000000000000000000001000201007191100000000000000000100000000000000000000000000001000000000000000010201007192100000000000000000010000000000010000001010000010000000000000000000201007193100000001000000002000000000000000000001001000000000000000000000010201007194100000000000000000000001000000000000000000000000000000000000000000201007195100000000000000000000000000001110000000000000000000000000000000000201007196100000000000000000010000000100000000000000010000000000000000000001201007197110000000000000000000000000001000001000000000000000000000000000000201007198100000001010000000000000000000000000100000010000200000000000002000201007199100000000000000010000000000000000010110000010000000000000000000000201007200100001000000000000000000000000000000000010000000000000000000000010201007201100000000000000000000000001010000000000000000000020000000000000000201007202100000000000000000000000000000000000001000100010000000000000000000201007203100100000000010000000000000000000000001001000001000000100000000000201007204100000000000000001000000000000000000000000000000000000000000000010201007205100000000000000101000000000000000000000000000000000000000010000010201007206110100000000000100000000000000000000001000000000000000000000000000201007207100000000000001100000002000000000000000000000000000000000000100000201007208100000000000000000000010000000200010000000010000000000000000100000201007209100000000000000000000000000000000000000000000001110000000000000000",
    "201007210100000000000000000000000000000000000001000002000001010000000000000201007211100000000000000000100000000000010000000000000000001000100000000000201007212100000000000000001000010001000000000000100010000000100100000000000201007213100000000000000000010100000100000000000000000000000000100000000000201007214100000000000000100000000000010000100100000000000000000000000010000201007215100000000000000000000000000000010000000000000000000000000000000000201007216100000000001000000000000000000000000000000000000000000000110000000201007217100010000000000000000000000000000000010000001000000000100000000000201007218100000100000100000000000200000000000000000000000000000000000000000201007219100000000000000000000110000000010000000000000000000000000000100000201007220100000001000000000000000000000000000000000000000000000000000000000201007221100000000000000000000000000000000000000000000000000000003000001000201007222100000001000000000000000000000000000000000000000010000000000000000201007223100000000000001000001010000000000000000000000000000000100100000001201007224100001000000130000000000000000000001000000000001001000010000010000201007225100000000000000000010001001000000010000000000000000200000000000000201007226100000000000000000000010000000000000000000000000000000000000000000201007227101000000000100000000000000000000000010000000000000000000000001000201007228100000000000000000000000000000010000000000000000000001000000000000201007229110000000000000000000000000000000000100010000010000110000000000000",
    "201007230100000000000000000000000000000000001000000100000000001000000000000201007231100000000000000000000000000000000000000000000000000000000000000000201007232100000100000000000000000000000000010000000000000000000000000000000201007233100000100000000000000000010001000000000000000000000000000000000000201007234100100000000000000000000000000000000000000000000000000000001000000201007235100000000000000000000000000000000000010000000000000001100000000000201007236100000000000000010000010010000000000100000000000000000200000000000201007237100000000100000000000000000000000000000000000100000100000000000010201007238100000001000000000000000000000000000000000000000000110000000000000201007239100000000000000000000000000000000000000000000000000100000000000001201007240100000000000000000000000001000000000000001000000000010000000000000201007241100010000001000000100000000000000000100000100000000000000000000000201007242100000000000000000000000000000000000000000000000000100000000000000201007243100000000000001000000000000010010000000000000000000000000001000000201007244100000000000000000000000010001000000100000000100000000000010000000201007245100000000000000001000010000000000000000000000000001000000000011000201007246110000000000000000000000000000000000000000001000000000000000010000201007247100000000000000000000000000000000001000000000000000000000100000000201007248100000000000000000000000000010000100000000000000000000000000000000201007249100000000000000000000000000000000000000000000000000000100001000000",
    "201007250100000000100000000001000000000000000000000000000000002010100000000201007251100000000000010000000000000000000000001000000000000000000000000010201007252100000000000000000000000000000000000000010000000000000001000000001201007253100000100001003000000000000000000000000000000000010000100000000000201007254100000000100000000200000000001000000000001000000001020001000000000201007255100010000000100000000000000100100000000010000000000000000000000000201007256100001000000000000000000000000000000010000000001000000000000020001201007257100000000000000000000100000000000000001001010010000000000010000000201007258100000000000001001000000000000000000001000000000000100000100000010201007259100000000000100000000000000001000010000000000100001000000000200000201007260100000100100000000000000000001000100000000000000001000000000000000201007261100000000000000000000000000010000000001000000110000000010000000000201007262100000000000000000000000000000000000000000001000000000000000000000201007263100100100000100000000000000000000100010000000000000000002000001000201007264101000000000000000000000000000000000000000000000000000000000000200201007265101000100100000000000000000000000100100001000010000000000000100000201007266100000001000000000000000000000000000000100000000000000000000000000201007267100000000000000000100000000100001000000000000000000000000000000000201007268100000000000000000000001000000000000000001000000100000000000000000201007269100000000000000000000010000000010001000001000000000000000000000010",
    "201007270100000001000000001000000000000000000000000000000000000000000100001201007271100000100000000000000000000000100000000000000000100000010000000000201007272100010100101000000000000000000000000000000000100000000000000000000201007273100000000000000000000000000000000000010000000000001000000000000100201007274110000000000000000020000000000000001100010000000110000010000000000201007275100011000000200000000000000000000000000000000000000000000000000000201007276101000000000000000000010000000000000000000000000000000000010100000201007277100000000000000000000000000000000000000001100100000000010100000010201007278101000001000000100000000000000000000101010000000000000000000000000201007279100000000000000000010000000000000000000000000000000000000000000000201007280100000020000000000000001000000010000000001000000000000000010000100201007281100000010000000000010000000000000000000000000000000000010000000000201007282100000000000000000010000000000000000000000000000100010000100000000201007283100000010001000000000011000000000000000010000010000010000000000000201007284100000000000000000000000000000000000000000000000000001000000000000201007285100000000000000000000000000000000000000010000000000000000000000000201007286100000000000010000000000000000000000000000000000100000000100000000201007287100000000000000000000000000000000000000000000000000000000000010101201007288100000011000000000000000000000000010001100000000000000000000000000201007289100000010000000000001000000001000000000000000000000020000000010000",
    "201007290100000000000000000100000001100000000000000000000000000000000001000201007291100001000100000000000000000000000000000010000000010000001000000000201007292100000000000000000000000000000000000000100000000000000000000000000201007293100010000000000000000000000000000000000000000000000000000000000000201007294100000000000001000000010000000000000000000000000000000001000000000201007295100000000000000000000000000001001000000000000000000001000000010000201007296100000000000000000010000001000010000000000000000100000000000000000201007297100000000000000000100000011001000000000000000000000000000010100000201007298100000000000000010001001010000100000000000000000000000000000000000201007299101000000001000000000000000000000001000000000000000000000100000000201007300100000000000100000110000000000100000000000000000000000000010001000201007301100000000000010000010000001000000000000000100100000000000001000000201007302100000000001000000000000000001000000000100000000000000000000010000201007303100010000000000000000000000000000000000010000000000000001000000000201007304100000000000100000000000000000000000100000010000000001000000000000201007305100000000000000000000000100000000000000000000000000101000000000000201007306100000000000000000000000001001000000100000000000102100010000000000201007307100000000000000000000000000010000001000100000000000000000000000000201007308100000000000000000000000000001000000000000000000000000000000000000201007309100000100000000000000000000000000000000000000000000000010000010000",
    "201007310100000000000000000000000010000001000001000000000000000000000000000201007311100000000001000000000000000000000002000000000000000000000000000000201007312100000000010000000000000000001010000000000000000000000000000000000201007313100000000000000000000000000000000010000000000000000100000000000000201007314110000000100000000000000000000000000100020000000000100000001000010201007315100001110000000000000000000000000000000001000000001000001001000000201007316100000000010000000000000000000000000000000000000000000000000000010201007317100000000000000010000000000000000001000000000000000000000000001000201007318100000000110000000000100000000000000000000100000000000000010010000201007319100100000010000000000100000000000000000000000000000100001000000000201007320100001000000000000000000000000000000000000000000000000000000010001201007321100000010000000000000000000000001000010000100000000000000000000000201007322100000000000000000000100000001000000000010000000000000000010001000201007323100000000000000000000200010100000000100000000000001000010001010000201007324100001000000000000000000000000000000000000010000010000000000000000201007325100000000000000000000000000010000000000001000000000100000000000002201007326100000000001000000000000000000000000001000000000000000000010001000201007327100000100000000000001000000000000000001000000000010000000000000000201007328100010000000000000000000000000000000000000000000000000000000000000201007329100002000000000000000000000000000100000000000000000000000000000000",
    "201007330100000000000001000000000000000000000000000000000000000000000100000201007331100000000000110000000000000000000000000000000000011100000000000000201007332100001000000000001000000000000000000100000000000100100000000010000201007333100010000000000000100000000000001000001000000000000000000000010000201007334100000010000000010000000000000000100000000000000000000000000000000201007335100000000000000000000000000000000100100000000000000000000000001000201007336100001000000000000000000000000000010000000000000000000000000000000201007337110000000000000000000000000000000000001000000000000000000000000000201007338100010000000000000000000001000000000000000000000000001000000000000201007339101000000000000000000000000000000000000000000000000000000000000000201007340100000000000000000000000010000000000000000000000000000000000000000201007341100000000010001000000000000000000010000000001010000000000000000000201007342100000000001000000000100000000000000000001001000000000000000000000201007343100000000000000000000010010000000000000000000000000100000000000100201007344100000000000001000001000000000000000000020000001000000000000000000201007345100000000000000000000000000000000000020010000000000000000000000000201007346100010100100000000000000000000000000000000000000000000001000000001201007347101010010000000000000000000000000000010000001000000000000010001100201007348100000000000010001000000000000000000000011000000010000000100101000201007349100000000000000000000000000000000000000100000000000000100000000000",
    "201007350100100000000000010000000100000000010000000000001001000000000000000201007351100000000000000000000000010000000000000000000001010100000000000000201007352100000000001000000000100200000000000000000000000000000000001010000201007353101010000000000000010000000000000000000000000000000000000002000000201007354110010000000000000000000100000000000000000100000000000000000000000201007355100000000001000000000000000000000000200000000000000000101010000000201007356100000000000000000000000000100000000000000010000000000000010000000201007357100000000000000001000000000000000000000000000000000100000000010001201007358100000000000000000000000100000000000000000100000001010000000001010201007359100000000000000000000000010000000000000000000000000000001000000100201007360101000000000000000000000000100001000000000000000000000000000100000201007361100000010000000001000000000000000000000000000000000000000000000000201007362100000000000000000000000000100000000000000000000001000000001000001201007363100000000000000000000000000000000100000000010000000000000000100001201007364100000100000000000000000000000000100000000000000000000000000001000201007365100000000000000000000110002000000000000000000000000000000000100000201007366100000000000000000010000000000010000000000000000000000000000000000201007367100000000000000000000000000000000000000010000000010000000000000000201007368100000000000000000110000000000000000000000000000000000001000000000201007369101001000000000000000000000000000000000000100000010000010000000000",
    "201007370100000000011000000000000000000100000000000001000000000100000000000201007371100000000000000010010000000000000000001000000000000100000000100000201007372100000000000001000000000000000000000100000000001000000000000000000201007373100000000000000001000000000000000000000000000000000000000000010000201007374110002000100000000001000001010000000000000000000000000000100000100201007375100000000010000000000000000000000000000001000000000001000000000000201007376100000000000000000000000000000000000001000001000010000000000002000201007377100010000000000000100000000000000010000000000010000000000000000000201007378100100200100000000000000000000000000000000000000000000000000000000201007379100100000000000000000000000003000000000000000100000000000000001000201007380100010000000100010000000000000000000100010000100000000000010010000201007381101000000000000100010200000000000000001000000000000000000000000100201007382100000000001000000000000000000000000000001000000000000000000001000201007383100000001000000000000001000001000000000010000010011000000000000000201007384100000000000000000010000000010000000000000000001001010000000000000201007385100000000000000000010000000010000000010000000000000000000000000000201007386100000000000000010000000000000000010000000000000000000000010000000201007387100000000020000010000000000000000000000000000000000000000100000000201007388100000000001000000000000000000001000000000010000000000000000000000201007389100000000000000000000110000000000001000000000000000000000001000000",
    "201007390100001000000000000000000000000000000000000000000000000000000000000201007391100000000000000000000000000000100010000000000000000000000000000000201007392100000000000010000000000000100000100020000000000000000000000000000201007393100010000000010000000000000000001000000000000000000000000000000000201007394100100001000000000000000001000000000000000000000000000000000000000201007395100000000000000000000120000000100000000000000000000000000000000000201007396100000000000000000000000010000010000000000001000000000000000000000201007397100000000000000000000000000000000000001200000000001001000000000000201007398100000000000000000000000001000000000100000000000000000000000000000201007399101000100000010000000000000000000000000000000010000001000000110000201007400100100000000010000000000000010000010000000010000000000000000000000201007401100100000000010000000000000010000000000000000000000000000000000000201007402100000000000110000000000000000001000000000000000000001000000000000201007403100000000000000000000000000000000000000000100000000000000000000100201007404100000000101000000000000000000001000000000010000000000000001000000201007405100000011000100000100000000000000001000000000000100000000000000000201007406101000000000000000012100000000000000000100000000000000000000000000201007407110000000001000000000000100000000100010000000000000000000000000000201007408101100000001000000000001000000000000000010000001000100000000000000201007409100000000000200000100000000010000100000000000010100100000000000000",
    "201007410110000000000000000001000000000000100100000000000000020000000000100201007411100000000000000010010000001100000000100000000110000000000100011000201007412110000000000001000000000000000010000000000000000000000000000000100201007413100000000000000000000000001000000000000000100100000100000000000000201007414100000000010000100010000000100000010000000000001000000000000000000201007415100000000000000001010100000012000000000001100000000000000000000000201007416100000000000100000000000010010000100000000001000000000000100001001201007417100000000000000100000000000000000000001001011000000000000000000100201007418110100000000000000000000000000010000000000000000000010000000000000201007419100000000000000100000000000000100000100000010100000000010000000000201007420101000000000000000020000000000000001000001000000000000000000000000201007421100000010000000000000000000000000000000000000000000100000001000000201007422100001000000000000000000000000000200000000000000000000000000001000201007423100000000000010000000000000000000000000001000000000000000000200000201007424100000000000100100000000010000000100000000010000100001000000000000201007425100000000000000000000000000000000000000000000000110000000000000010201007426100000100000000000010000000000000000000100010000000000000000010000201007427100000000000000000000000000001000000000000100000001000000000000000201007428100010000010000000000000000000000000000000000000010000000100000000201007429100010000000000000010000000000000000002000000000000000000000000000",
    "201007430100000000000000000000000000000000000000000000000100000000000000000201007431100000000000000010000000000000000000010000000000000000000000100000201007432100000000101000001100000100000000000000000101000010000000000000010201007433100000010010000000000000000000000000000000001000000000000000000000201007434100000000000000010000000020000000000000000000000000000000000000010201007435100001000000100100000000000000100000000000001000000000000000000000201007436100000000000000000000000000000100000000000000000000000001000000000201007437100000000000000000001000001000000000002010000000000000000000000000201007438100000000000000100000000000000000000000000010000000000000000000000201007439100001000000100010000000010000100000000000000000000000000000000000201007440100100010000000000000000000010000000000000000000000000000000000000201007441100000000001100000000000000000000001000000000000000000000000100000201007442100000000000000000000000010000000000000000000000000001000010000100201007443100000000010000000000000010000000000000000000000000000100000000000201007444100000000000000000000000000000000000000000000000000000000000000001201007445100000000000000000000000000000000000000000010000000100000000000000201007446100000000002000000000100000000000000000000001000000001100000100000201007447100000000000000000000000000100000000000000000000000000000020100000201007448120000000000000000001000000000100000000000000000000000000000000000201007449100001100000010001001000000000000001000000100100000000000000000000",
    "201007450100000000000000000000000000011000200000000000000000000000000000000201007451101000000000000100001000000000000000000000000000100000000000000000201007452100010000000000000000000000000010000001000100000000000000000000010201007453100000000100000000000000000000000000000000000000000000000000000000201007454100000001000000000000000000000000000000100000000000001000010000000201007455100000000000000000000110000000000000000000000001000000000000000000201007456100000000000000001010000000000000000000010000000000000020010100000201007457100000000001000000100000001000000000010000000000000000000000000000201007458100000000000000000000000000000000000000000011100000000000000000000201007459100010000000000000100000000000000000000000000000000001000000001000201007460100000000000000001000000000000000100000000000000000000000000000000201007461100000000000010000001100110000100000000000000000000010000001001000201007462100000000000000000000000000000000001010000010000000000000000000000201007463100000000000000011001000000000000000000000100200010100000000002000201007464100100000000000000000001000000000000000000000000000000001000000002201007465100000010000000100000000000000000000000000000000001000000000000000201007466100100000000010000000000000000000000001000001001000000000000001000201007467100000000020000000000000000100000000000010000010000000000000000000201007468100000000100000000100000000000000000000000001000000000000000000100201007469100000000000000000000000000000000000000000000001000000000000000001",
    "201007470100000000000100000000000000000001100000000000000000000000000000000201007471100001000000000000000000000000000000000000110000000000000000000000201007472100000000000000002000000100000000000000000000000000000000000000000201007473100000000100000000000000000000000000000000000000000010010000000000201007474100010000100000000000000000012000000001000000000000000000000001100201007475100000000011000000000000000000000001000000100000000000000000000000201007476100000000001000000000000000000000000000200000101000000000000000000201007477100001000100000000001000000010000000000000000000100100010001000000201007478100000001000100001000000000100000000000000000000000000000001000000201007479100001000000000000100000000000020000000000000000000000010000000000201007480100010001000000000000000000000001000000001000000000000000000000000201007481100000000000000000000000000000000000000001000000000001000000000000201007482100001000000000000000000000000000000000000000000000000000000001000201007483100000001001010000000000000000000000000000000010000000000000000000201007484100001000000000100000000000000000000000000000001000000000000100010201007485100000001000000000000000000000000010000001000000000011000010000000201007486100000000000010000000010000000001010000000000100100000000000000000201007487110000000100000000000000000001000100000020000000010000000000000000201007488100000010000000000000000000000000000000000000000000000100000000000201007489100000000000000000000000002000000000000001000000000000000002000020",
    "201007490100000000000000000000000000000100000000000100000000000000000000000201007491100000100000000000100001000000000101000000000000000000000020000000201007492110000010000000000000000000000000000000000001000000010000000000000201007493100010001000001000000101110000010000000000000000000000000000000000201007494100000000000010000000000000000000000010000000000000000000000000000201007495101000100000000000000000000000000000000110000000000010000000001001201007496100000000000010000010000000100000000000100000000000000010000000000201007497100010000000001000000000000000000000000000000002000001000000000000201007498100000001000000000000000010000001000010100000000000000000000000000201007499100010000000010000000001000000000000000000000000000000100000000000201007500100100000000000000000000000000000000010000000000000001000000010000201007501100000101000000000000000000000001000000000000001000000000000000000201007502100000000000000000000000000000000011000000000021000000100000000000201007503100000000100000000000000000100000000000000000000000001000000000000201007504100000000000000000000000100000000000000000000100000110010000001000201007505100000102000000000000001000000000000000000000010000000000000000010201007506100010000000000000000000001000000000000000000000000200000100000000201007507100000100000000000000000000010000000000000100000000000000000000000201007508100100000000010010000000000000000000000000100000000000010000000000201007509100000010000000000000000000000000000000000000000000000000010000000",
    "201007510100000000000000000000000000010000000000010001000000000000001000000201007511100010000000000000000000010000000000000000000000010000000100000000201007512100000010000000000000000000000000000000010000000000000000000000000201007513100000000100100000000000000000000000000000000100010000000000000000201007514100000000000000000000010000000000000000000000000000000000100000000201007515100000000000000000000001000000000000010000001000001000000000000000201007516100000000000000100000000000010000000000000000000000000000000000010201007517100000000000000000000000000000000000000000000000000000000000000000201007518100000000000000000000010000000000000000000100000002100000000000010201007519100000000000001000000000001100000000000000000000000001000000001000201007520100002000000000000000000000000000000000011000000000000000000000000201007523100000100000200000000000000000000000000000000010000000000000000000201007524100000000000000000000000001000000100000000000000000000000010000000201007525100000000000010000000000000000100000000000100000000000000000001000201007526100000000000000001000000000010010000000000001000000000000000000001201007527100000000000030000000000000000000001000000000010001000000010000010201007528100000000000000000000000001000000000000000000001000001000000010000201007529100000000000000010000001000000000000000101000000000010000100000000201007530100000000000000000000001000000000000000000001001000000000011000000201007531100000100000000010100000000000000000000100000000000000000000000000",
    "201007532100000000101000000010000000000000000000000000000000010000000000000201007533100000010000000000000100000000200000000000000000000000000000100000201007534100000000000000000000000010000000000001000000000000000100000000010201007535100000000000010000000000000000000000000000010000000000000002000000201007536110000000010000000000000000000000000000000001100000000001000000000201007539100000000010000000000000000000100000000000000000000000000000000000201007540100000001000000000000110100000000000000000000100000010000001000000201007541100001000000000010101000000000000000000000000000000100000000000000201007542101000000000000000000000000000000000000000000000000000000000000000201007543100000000000000000000010000000000000000000000000000010010000000000201007544100020000000000000000000010000000000000000000000000000000000000000201007545100000000000000100001000000000010000000000000000000000000000000000201007546100000000000000000000010000000000000000000000000000000000000000010201007547100000001000000000000001010000000000000000100000000000000100000000201007548100000000000000010100000000000000000000000000000000010000000000000201007549100010000000000000000000000000001000000000000000000000001000000000201007550101001000000000000000000000010000000000000000000000000100000000000201007551100000000000000000000000000000010000000000000000000000000000000000201007552100000000000000000001000000000000000000000000000000000000001000000201007553100000000000100000000000000000100000000000000000000000000000000000",
    "201007554100000000000000000000000000000000000000000000000000010100000000000201007555100000010000000000000000000000000000000000000010000000000001000000201007556100000000000000000000000000010000000000000000000000000000000100000201007557100000000000000000000000001000000000000000200000100000000000000000201007558100000000000000100000000100000000000010000000000100000000000000001201007559100000000000000010000000001000000000000000000000000010000000000000201007560110000000000010000000000010000100010001000001000000100010000000000201007561100000000000000000000000001000000000000001010000000000000000000000201007562101010000100000000000000000000000000000000011000000000120010000010201008000100000000000000010010000000000000100000000000000001010000000000000201009000100000001000000000000000000000000000000000000000000000000100000000201010000100000000001001000000000000000000000000000000000000001000000000000201011000100000000000000000100000000000000000000000000000000000000000000000201012000100000000000000000000000000000010000000000000000000000000000000000201013000100100000000000000000000010000000100000000000010100100001000000000201014000100001000000000000000000000100000000000000100000000000000000000000201015000100000000000000000000000000000000000001000000000000000000000100000201016000100000000001000000000100000000000000010000000000100000010000000000201017000100000000000000000010000000101000000000001100000000000000000000000201018000100010000000001000000010000000000000000000000010000000000000000000",
    "201019000100010000000000000000001010101000000100000000000000000101000000000201021000100000000000000000000000000000000001000000000000000100001000000000201022000100000100000010000000000000000100100000000000000000000100100000000201023000100000000000000000000000000001000001000000000000000000000010000000201024000100000101000000000010000000000100000000100000000000000000000000000201025000100010000001011000000001000000001000000000000000000000000000010000201027000100000000000001000000001010000100020100010000000000000000000010000201028000100000000001000010000000000000000000000000000000000000000000000000201080000100000000000002100000000000100000000100000001000000000000000200000201029000100000000001000000000000000000000000000000000000000000000000010000201030000100000000000010000110000000000100000000000000001000000001000000200201031000101000000010000000000000000010000000000001000000000000000000000000201032000100000001000000001000000000000000000000000001000000000010000000000201033000100010000000000000000000000000000000000000100000000000000000000101201035000100000000000000000000010000000010000000000000100000000000010000010201036000100000000000000000000000100100000000001000000000000000000000000100201039000100010000001000011000000000100010000000000000000000000000000000000201040000100000000000000000000000010000000000000000000010000000000000000000201041000100100000000000000000000000000000000000000001100000000000000000000201042000100000000000000000000000000000000010010010000000000000000000000000",
    "201043000100102000000000000000010000000000000000000000000000000000000000000201044000100000000000100000000001000000000100001000000000000010000000001000201046000100000000000000000000000010000000000000000000001000000000100000000201049000101000000000000001000000000000000000000100000000000000100000000001201053000100000100000000000000000000000000001000000000101000000000000010000201054000100000000000000000000100000000100000000000000100000000000000000000201058000100010000000000000000000000000000000000000000000000000000000010000201060000100000100000000000000100000000000000000010000000000002001000000000201061000100000000000000000000000000000001100000110000000000000000000000000201081000100000000000000110000000000000000000000000000000000000100000000000201082000101000000000000000000000000000000001000001000100000000000000000000201083000100000000000020000000000000000000000000000000000001000000000000100201084000100000000000000000000000000010000000000010000000000000000000000000201085000110000101000000000000000000000100000000000100000001000000200000000201086000100000000000000000000000000000000000000010000000000000000000000000201087000110000001000000000000000000000000000000010000020000000000000001000201088000101000000000000000000000000100000000000000002100000000000000000000201089000101000000000000000000000010010000000000010000000000000001000000000201090000100000000000000000000000000000000011000000000000000000000000110000201091000100000100000000100000000000000001000000010000000000000100000000000",
    "201092000101000000000000000010000000000000000000000000000000000000000000010201093000100000000000000101000200000000000000000000000000000000000000000000201094000100100000001000000000000000000000010000000000000001000000000000000201095000100100010000000000000000000000000000000000000100000000000000010000201096000103000000000001000000000000000000000001000000001000000000000001001201097000100000010000000000010000010000000000001000010000000001000001000000201098000100100000000000000000000000000200000000000000000000010000000000000201099000100000010000000000000000000000100000000000000000000000000000000000201100000100000000020000000000010000000000000000000000000000000000000000000201101000100000000000000000000000000000000000000000000001000010100000000000201102000110000000000000000000010010000000000010000000100000000000000000001201103000101000000000100000010001000000000100000000000101000000000021000020201104000100000000000000000000000000000000000010000000000000100000000100000201105000100100000000000000000000001000000100000000000000000000000000000000201106000101000000000000000000000000010000000000000000000000000000000000000201107000100000000000001000000000000000000000000001000100100000000000000000201108000100000000000000002000100000000000000010000100000000000000000000000201109000100000000000000010000000000000101000000000000000000000000000000000201110000100100000000010001000000000000000000000000000000000000000000000000201111000100010000000000000000000110010000000000000000000000000010100011000",
    "201112000100010000000000000000000000000000000000000000000000000000002000000201113000100100000000000000000000000010000010000000010000000000000000000000201114000100010010000000000000000001000010000000020000000000000100000000000201115000100000100000001000000010100000000000100000000010100000001010001010201116000100000001000000000000000000000000000000000000010100000000000000010201117000100000001000010201001000000000000000000000000000000000000000010010201118000100000000000000000000000001100000000000000000000010000000000000000201119000100000000000000000000000000000000000000010000010000000000000010000201120000110000000000000000000000000001000000000000000100000000000001000000201121000100000100000000000000100000000000000000100000000000000000010000000201122000100000000000000000001000000100000000001100000000000000100000000000201123000100010000000000000000000000000000000000000000000000000000010010000201124000100000000000000000010000000000000000010000000000000000000000110000201125000100010000100000001000000000010000000000000000000000000000000000000201126000100000110000001000000000000000000000000000000100020001000000000000201127000100000000000000000000000000000000000000000000000000000100000000000201128000100000110000100010000000000000000000100000100000000200000200000000201129000100000000000000001000000000000000000001100001000000000000000000000201130000100010000000110000000000000000000000000000000000000000000000000000201131000100000000001000010000000000000000000010000000000101100000000000000",
    "201132000100000000000000000000000000000000000000000000000101000000000000000201133000100000000000000000010000000001000000000010000000000000000000000000201134000110000000000000000000000000000000000000100000000000000000000000000201135000100000000000000100000000000000000000000010000000100000000000000000201136000100100001000000000000000000000000000000000000000000000000000001000201137000100000010000000000000000000000000000000000000000000000000000000000201138000100000000000000000000101000000000000010000000000000000000000000000201139000100000000000000000010000000000000000000000000000000000000000000000201140000100000000000000000000000000000000100000000000000000000000000000100201141000100000000000020000001000100100000010110000000000001000001000000110201142000100000000010000000000000000000000000000000000000000000000100000000201143000100010000000000000010000000000000000000000000000000000000010000000201144000100000000210000000000000001010000000000010000000000000000000000000201145000100000000001000000000000010000000000000000001000000000000010000000201146000100001000100000000000000000000000000000000000000100010000000000000201147000100000000000000001000001000001000000000000001000000000000000010000201148000100000000000000100000000100000000000000000000000000000000000000000201149000100001100010000101000000000000000000000000001000000000100000000000201150000100000100001000000000000000000000000000000000000000000000000001000201151000100000000000000010000000000000000000000020000000000000000000000000",
    "201152000100000000000000000000000000000001000000001000000000000000000100000201153000100000000000100000000000000001000000000000000000000000000000000000201154000110000100000000000100010000000000000000000000000000000000000100000201155000100000000000000010010000000000001000000000000000000001000020001000201156000100010000000000000000000000000000000000000000000000000000000000000201157000100000000000000000000000000000000000000000000000000000000000000010201158000100000000000000000001000000100000010000000110000000100000000000000201159000100000000000000000000000000000000000000000000000000000000000010000201160000100000000000001000010200000010001000000000000100000000000000000000201161000100000000000000000000000000100000000000000000000000000000000000000201162000100000000000000000000000000000000000000000000011000000000100000000201163000100000000000000000000000000000000000001000010000000000000000001000201164000100000000000000000000000000000000000000000000000100000000000000010201165000100000000000000000000000000000000000000000000100000000000000000010201166000101000001010000000000000000000000000010000000000000001001000100000201167000100001000000010000000000000000000000000000000100000000000000000000201168000100000000000000000000000000000000010100000000000000100000000000100201169000100010001000000001010000000000000000000000010000000000000000000100201170000100100000000100000000000000101000001000000001000000000000000000000201171000100000000000000000000000000100000000000000000000000000000000010000",
    "201172000100010010000000010000000000010101000000000000000000001010001000000201173000100000000000000000000100000000001000000000001000100000000100000000201174000100001000000100000100000000000000000000000000020000000001100100000201175000100010000001000001000100000000000000000010000000000000000000000100201176000100001000000000000000010000000000000000000000000000000000000000000201177000100000000010000000000000000010001100010000000000000000000000000000201178000100000000010000010100001000001000000000010000100000000000000000000201179000100000000000000100000010000000000100010000000000000000000000000010201180000100000000000000000000000010001000100000100000000000000000000000000201181000100000000000000000000000000000000000000000000000000000000010000000201182000100000000000000000100000000010000100000000000001000000000100001000201183000100000000000000000200000000001000000000000000000000000000000000000201184000100000000000000000000000000000000000000002000000000000010000000000201185000100001000000000000010000000000000000000000000000000000000100000000201186000100000000000000000100000000000000010000001000100000010000000100000201187000100000000000000001000000001100000000001000000000000000000000000000201188000100000000000000000000000000000000000000000000000010100000000000000201189000100000000000100000000010000000000000000000000000000000100000000000201190000101000010000000000000000000010000000000000000000000001000000000001201191000100000000000110000000100010000000000000000000010000000000000000000",
    "201192000100000000000000000000000000000000000000000000000000000000000000000201193000100000000000000000220000000000101000100000100000100000010000000001201194000110000000000000000001000000010000000000000000000000000000001000000201195000100001000100000100000000000000000000000000000000000000000000000000201196000100000000000000000000001000000000000000020000000000000000000000100201197000100000000000001000000000000000000000000000000000100000000000001000201198000101000000000000001000000000000000000020000000000000000000000000000201199000101100000000000000000000001000000000000000010000000000000000000000201200000100001000000000000100000000000000000110000000000000002000000000001201201000100010000000000000000000000000000000000000000000000000000000000000201202000110000000000000000000000000000000000000000000000000001000000000000201203000100010010000000000000000000001000001000000001000000000000000000000201204000100000001010000100000000000010010000000002100000000000001001000000201205000100000000000100000100000000000000000100000000000000000000000000000201206000110000000000000000000000000000000000010000000010000000000000000100201207000100000000000000000000000000000000000000000000000000000000000000000201208000100000000000000000000000000000002000000000000100000000000100000000201209000100000000000000000000000000000000000000000000001000000000001000001201210000100002000000000000000001000000000000000000000001000001000000000100201211000100000000000000000100000001000010000000000000000000000000000000000",
    "201212000110000000000000000000000000000000010000000000000000000000000000100201213000100000020000000000100000000000000000000010000000000000000000100000201214000100000000000000000010000000020000000000000000000000010000000000000201215000100000000000000000000000000001000000000000000000000000000000000000201216000100000000000100100000000000100000020000000000000000000100000000000201217000100000000000000000000000000100000000000000100000000000001000000001201218000100000000000000000000000000000000000000000000000000001010000000000201219000100000000000000000000000000000010000000000000000000100000000000001201220000100000010000000000000000000000000000100000100000000000000001000000201221000100000000000000000000000000000000000001000000000000000000000000000201222000100000000000010001000000001000000000000000010000000000000001000000201223000100000000000001000000000000000000000000000000000000000000000000000201224000100000000000000000000000000000000000000000000002100000000000000000201225000100000100000000000000000000000000000000000000000001000000000000000201226000100000000000000000000000000000000000010000000001000000000000000000201227000100010000100000100000000000000000000010100000000001010000000000000201228000100000000000000000000000101000000000100000100000000000000010000000201229000100000000000000000000000000000100000000000000000000000000000000000201230000100000000000000001000000000000000000000000100000000000000001000000201231000100000000000010000100000000000000000100000000000000100020000000000",
    "201232000100000000000000000000000000000000000000000000000000000000000000000201233000100000000000110000000000000000000000110000000000000100010010000000201234000100100010000001000000000000000000000000000000000000010000000000000201235000110000000000000000000000010000000000000000000000000000000100000000201236000100000000000000000001000000000000000000000000000001000000000000000201237000100000000100000000000000000000000000000010000000000000000000010000201238000100000000100000000000000000000000000000000000000001100000000000000201239000100001000000000020000000000000000000000000000000000000000000000000201240000100000000000000000200010000000000000000000000100000000000000000000201241000100000010010000000000000000000000000000000000000000000000000000000201242000100000000000000000000000000000000000000001000000000000000000010000201243000100000000000000000000000000000000000000000000000000000000000100000201244000100000100000000000000000000001000000000000010000001001001000000000201245000103000010000002000000000000000000000000000000000000000000000000000201246000101000000000000000000000000000000000000000000000000000000000000000201247000100000000000000010100000000000000000000000000000000000000000000000201248000100000000100000000000000000000000000000000000000000000010000000000201249000100000000000010001000000000000000000100100000000000000000000000000201250000100000000000000000000000000000000000000001000000000100000000000000201251000100000000000001000000100000000000000000000000000000000000000000001",
    "201252000100000000000000000000001000010000010000011000000000100020000000000201253000101000000000100000000000000000000000000000000000000000000000101000201254000100000000000000000000000000000000010000000000010000000000000000000201255000100000001000000000000000000010000100000000000000000200000000000000201256000100000000000001000000000001000000000000000000000000000000000000000201257000100000000000000000101000000000110000000000010000000000100000000000201258000100000000010000000000000000000010000010000000000010010000000010000201259000100000000000100000000200000000000000000000120000001100000000001000201260000100000000010000000000100002001000000000000000000000000000000000200201261000100000000000000000000000000100000002000010000000000000100001001000201262000100000000000100000000000000000000000000000000000000000100000001000201263000100000000000001001000000100000000000000000000000000000000000000000201264000100000000000000000000000000000000100000000000000020000000000000000201265000100000000000000000000000000100000000000000000000000000100000000000201266000100000000000000000000000000001000000000000000000000000000000000000201267000100000000000010000000000000000000100001000000001000001000000000000201268000100000000000000010000000000010000000000000000000000000000000001000201269000101000000100000100000000000000000000100000000000000000000000100000201270000100001010100000000000000002010000000000000000000000000000000000000201271000100000000000000000000000000000000000000000000000000000000000000000",
    "201272000111000000000000200001000000000000000000000100001000000000000000000201273000100000000000000000000001000001000000001000000000001000000000000100201274000100000000000000000000010000010000000000000010000000000000000000000201275000100001000000000000000000000000000000000000000120000000000000000001201276000100000001200000000000000000000000000000000000000000000000000010000201277000100000001000000000000000000000000000010000000000000000000000001000201278000100000001000000000000000000001000000000000000000000000001000010000201279000100000000000000000000000000000001000000000000000000000001001000000201280000100000100000000000000000000000000000000010000000000000020001000100201281000100000000000000000000000000000000000000000000000000000000000001000201282000100000000000000000000001000000000000000000000000200000000000000011201283000100000000000010000010000000000000000000000100000000000000000000000201284000100000100000000000000000010000100000000000000000010000000000000000201285000100010000000000000101000000000100000000000000000000001000001000000201286000101000000100000000000000000000010000010000000000000000000000000100201287000110000000000000010000000000000000000000000000000000000000000000000201288000110000000000000000000000000000000000000000000000000000000000001000201289000100000000000000000000000000001000000000100000000100000000000200000201290000100010000000000000000000010000000000000000000000000000000000000000201291000100000000000000000010000000000000000000000000000000000000000000000",
    "201292000100000000000000000000000100100000000000001000000000000000000000000201293000100000001000010010000000000000000010000000000000100000000001000000201294000100000000000000000000001000000001000000000000000000000000000100001201295000100000100000000000000000100000000000000110001000001101000000100000201296000110000000000000000100000000001000000000001000000000000000000001000201297000102000000000000001000000000010000001000100000000000000001000000000201298000100000010000000000000000001000000000000010000000000000000000010000201299000100000100000000000000000000000000000000000000010000000000000000110201300000100000000000000000100000000000000000000000001100000000000000000000201301000100101000100000000000000100000000100000001010000000000000001000010201302000100000011100000000000000000100000000001100000000000000000000000000201303000100000000000000000000000000000000000000010000000000000000000000000201304000100000000101000010000000000000000000000100000000000000000000000000201305000100000000000000000000000000000000000000000000000000000000000000110201306000100000000010000000000000000000000000000000000000000000100000000000201307000100000000000000000000000010000000000000000000000000000000000000000201308000100000000000000000000000010000000000000010000000000000000000000001201309000100001000000000000000000000000000000010000000000001000000000000000201310000100000000000000000000000000000000000100000000000000000000000100000201311000100000000000000010000000000001000001101000000100000000000100101000",
    "201312000100000000000000000000000000000001000000000000000000000000010000000201313000100100000000000000000000000000000000000010000000000000000000000000201314000100000000010000010000000000000000000000000010000001000000000000000201315000100010000000201000000000200000000000000000000000000000000000000000201316000100100000000000000000001000000000000000000001010000000000000000000201317000100002000000000010010000000000001000000000000000000000000000000000201318000100000000000000000000000000000000000000000000000000000000000000000201319000100000000000000000200100000000000001000000010010000000000000001000201320000100000000000000000000000001000000000000000000100001000000000000000201321000100000000000000010000000010000000000000000010000100000001000000000201322000100000000000000000000101000000000000000000000000010000100000000010201323000100000000100000001000000000001000000000000000000000000000000000000201324000101100000000000000000000000000000000000000000000000000000000000000201325000100000000000000010010000000001000000000000000000000000000000000000201326000100000000000000100000000000000000101000011000000000000000000000010201327000110000000000011000000000000000011000000100000000000000000000000000201328000100000010000000000000010001000001100000000010000000000100000000000201329000100010000000000000000010000000010000100000000000100000000010010000201330000100000000000000000000100001000110000000000001010000000000000000000201331000100000000000000000000000000001000000000000000000000000000000000100",
    "201332000102003000000000000000010000000000000100000000010100010000000000000201333000110000000000000000100000000100000000000000000000000000010100000000201334000100000002000000000010000000100000000000000000010000100000100100000201335000100000010000000000000000000000000000000000000000000000000000001010201336000100010001000000000000000000001000000000000000000000000000000000000201337000100100000000000000000000000000000000001000000000000000000100000000201338000100000000000000000000000000000001000000000000000000000000000110100201339000100000000000000100001100000000000100000000000000001000010000000000201340000101000000000000000001000000000000000000000001000000000000000000000201341000100001000000000000000000000010000000000000000000000000000000000000201342000100000001000000000000000000000000000000000000000000000000000000001201343000100000100001000000000000000000000000000010000000000000000000000000201344000100000000000000000000000100100000000001000010000100002000000000000201345000100100100000000100000000120000000001000011000000000000002001000000201346000100001000000100000100000000000000000000000000001000000000000010000201347000100000000000000001000000000000000000000000000000000000000000000000201348000120000000000000000010000000000000000000010000000000010000000000000201349000100000100100000000000000000000010000000000000000000100000000010000201350000100000000000000000101000100000000100100000000000000000000000000010201351000100000000000000000000000000000000000000000000000000000000000000000",
    "201352000100000000000000000000000000010000000000000000000000000000000000000201353000100000000000000000000030010000000000000001000000000000000000000100201354000100000000100000000000000000000000000010000000010000000000010000000201355000100000000000100000000000000001100001000000000100000000000000000010201356000100000000000000000000000000000000000100000000000000000000100000000201357000100000000000000000000000000100100000000000000000000000100000000000201358000100000000000010100000010000000000000001000000000000000000000000000201359000100001000000000000000000000000000000000000000000000000000000000000201360000100100000000000001000000000000000000000000000000000000100000000000201361000100000102000001000000000000000000000000001000000000000000000000100201362000101001000000000010000000000000000000100000000010000000000000000000201363000100000010000000000000000100000000000000000000000000000001000000000201364000100000000000010000000000000000000001001000000000000010000000000000201365000100000002000000000001000000000000100000000000000000000000000000000201366000100000000100000000001000000000100000000000000010000000000000000000201367000100000000100000000100000000000100000200000000000000000000000000000201368000100000000000000000000020000000000000000000000000001000000000001010201369000100100000000010011000000000000010000100000000010000000000001000000201370000100000003000000000010000000001100000000000000000000000000000000000201371000100000000000000000000001000000000000000000000000001000000000000000",
    "201372000100000000010000000001001000000000011000000000000000110000000000000201373000100000000000000100000001000000000010000000000000000000000000000000201374000100000100010001000000000000000000000000100000100100000000000000100201375000100000000000000000000000000000000200000000000000000000000000000200201376000100000000000000000000000100100000000000000100000000000000000000000201377000100000000000100000000000000000000000000000000000000000000000001000201378000100000000000000000000000000000000000010000010000000000000000000000201379000100200000000000000000001000000000000000000000000000001000000000000201380000101000000000000001000000000000010000000000000000000000000100000000201381000100000000000010000000000000000000000000000000000000002010000000000201382000100011000000000000100001000000000010000000100000000000001100000010201383000100000000000010000100000000000000000001000000000010001000000000000201384000100000000000000000001000000000000002000000000000000000000000001001201385000100000001000000000100000000000000000000000000000000000000000000000201386000100000001000001000000000000000000001000000000000010010000010000000201387000100000000100000000000000000000000000000000000000000000000000000001201388000100000010000000000000010000010000000000100000100000000000000000010201389000100000000000010010000000000000101000100000000000000000100000000000201390000100000000100000000000000000000000000000110000000000000000000000000201391000100000000200000000000000000000000000000010000000000000000000000000",
    "201392000110000000001000000100000000000000000000000000001000000000000000000201393000100010000000001000000100000000010000000000000000001000010000000000201394000110000000000000010000000000000010000000000100000000000001010000000201395000100000000000000000000001000000000000000000000000000000000000000010201396000110000000000200000100000000000000000000000000000100000000000000100201397000100000000000000000000000001010000000000000000100000000000000000010201398000100000000000000000000000000000000100000000000000000000000000000001201399000100000000000000000000000000000000000000000010000000000000010000000201400000100000010000000000000000000000000010000000000010000000000000000000201401000100000100000000000000000000000000000000001000000000000000000021000201402000110000000000000000000000010000000000000000000000000000000000000000201403000100000000000000000000000010000000001000000000000000000000000000000201404000100000000000000000000100000000010000000000000000000000000000000000201405000100000000000000000010000000000001000000000000000000000000000000000201406000100001000010000000000000001000000000000000000000001000000000000000201407000100000000000000000000000000000000000000000000000000000000000000000201408000100000000110000000000000000000000000000000000000000000120000000000201409000100001000000000001000000000000000000000000000000000000000000000000201410000100010000000000000000100000000000000000000000000000000000000000000201411000100000000000000000000000000000000000000000000000001000100000000010",
    "201412000100100000000000000000000100000000000000000000000000000100010000000201413000100100000000000000001001000002000000100000000000000000000000000000201414000100000100000000000000000000000000000100000001000000000000000000000201415000100100000000100000000000000000000000000000000000000001000000000100201416000100000010000000000000000000000000000000000000000000000100000000010201417000101000000000000001000000000000000000000000000000000001000000000000201418000101000000000000000000000000000000000000000001000000000000000000000201419000100010000100100000000000000100000000000000000000000000000000001100201420000100000000000010000000000000000000000000000000000000000000100000000201421000100000010100000000000000000000000010010000000000000010010000010010201422000100000000000001000000000000000000011100000000000000000000000000000201423000100000000000000000000001010000000000000000000000000100000000001000201424000100000000110000000000000000000000000000000000000000001000000000000201425000100000000010000000000001000000010001000000000000000000000000000000201426000100000000000000010100000000000000100000000000000000000000000000000201427000100000000000000020000000000000000000000000000001010000000000000000201428000100200000000000000000000000000000000100000000000100000000000000000201429000100000000000000010000000000000000000000000000010000000001000100000201430000100000000101101010000000000000000000000000000000000000000000000000201431000100000000000100000010010000000000000000000000000000011000000000000",
    "201432000100000000000010000000000000000000000000000000000001000000001000001201433000100000010000000000000000000100000000000010010000000001000000000000201434000110000000000000000000000001000000000001000000000000000000000000000201435000100000000000000000000000000000000100000000000100000000000000000000201436000100000000010000000010000000000000010000000000010000000000000000001201437000100001010000000100000100000000000000000103000000000000100000000000201438000100000000001000000000100000000000000001010001001000000000000000000201439000100000000000000000010000000010000000000100000000000000001100000000201440000100010000000000000000000000100000000002001000000000000010000000000201441000100000000010000010000000000000000100001000000000001000000000000000201442000100000000000100000000010010000000000000000000000000000000000100000201443000100000000000000000000000000000100000000000000001100000000000000100201444000100000000000000010100000000000000000000000000000000000000000000000201445000100010000000000001000000010000000000000000000000110001000000000000201446000100000000000000000000010000000000000000000001000000000100000000000201447000100000000000100000000000000000000000000000200000000000000000000000201448000100000000100002000000001000000000001000000000000000000000000000000201449000100000000000000000000000000000000000000000000000000000000000000001201450000110000000001000000000000000000000000000000000000000000000000000000201451000100000000100000000000000000101000000000000010000000010000000000000",
    "201452000101000000000000000000000010000000000000000000001000010000000000000201453000103100002000000100000000010000000000000110000000020000000000000000201454000100000000000200000000000010000000000000000000000000000001000000000201455000100000000001000010000000000000000000000000000000000000000000000000201456000100100000000000000000000000000000000000000000000000000100000002000201457000100000000000000000100000000000000000000000000000000000000000000000201458000100000000100000000000000000000000000000010003000000000001000000000201459000100000000000000000001000000000100000010000010000000000000010000000201460000110001000000200000000000000010000000001000000000000000000000000000201461000100000001000000001000010000000000000001102000000000000000010000000201462000100000000000010000000000301000001010000000000000000022000000000000201463000100010000000000001001000000000000000000000000001000000000000001000201464000100000000000000010000010000000100000000000000000000000000100000000201465000100000100000000000000000000000000010000010000000001000000000000000201466000100000000000000000000000110000000001000000000000000000100001000100201467000100000000000000010000000000000002000000000000000000000000000000000201468000100000000000010000001001000000010000000000000000100100000000000000201469000100100000000000000000000000000000010000010000000100000000001000000201470000100000000100000000000000000000000000000200000000000000000100000000201471000100010000000000000000000000010000000100010000000000000000001010000",
    "201472000100000000000000000000000000000000100000000000000001000001000000000201473000100000000000000000000000000000001010000000000000000000001000111000201474000100100010000010000000000000000000000000000000000000000010000000000201475000100000000000000010000001000000000000000002000000000000000000000100201476000100000000000000000000000000010000000000000000000000000000000000000201477000100000000000000000100000100000110000000000000000000000000000000000201478000100000000000000000000000000000000000000001000000000000000000000000201479000100001000000001000000100000000000000000101000000000000010000000020201480000100000000000000000000000000000000000000000000000000000000200000001201481000100000000000000100000000000000000001000000000000000000000000000000201482000100000001000000001010010000000000000000000000000000100000000000000201483000100010100010000000000010000000000002000000000000000020000001010000201484000100000000000000000000000000000000000010000000010000000000000000000201485000110000100000000000000000000010000000000000000000000001000000010000201486000100000000000000000000000000000000000000000000000000001000000000000201487000100000000000000000000000000000000000000000000000001000000000000010201488000100000001000001000000000000000000000000000000010000010000000000000201489000100000000000001000000000000001000000000000000000010000000000000000201490000100100000000000000000001000000000000000010000000000000000010000000201491000100000000000000000000000000000000000010000000000010000000000000000",
    "201492000100000000100000000010000000000000000000000100000000000000000000000201493000101000100000100000000020000000000100000000000001000100000200000010201494000100000000000000000000000000000000001000000000000000000000000010000201495000100000000001000000000000000000000000000000000000000000010000000000201496000100000000000000000000000000000000000000000000001000000000000000000201497000101000000000000001000000010000000010000000010000000000001010000000201498000100000101100000000000000000000000000000000001000000000000000000000201499000100000000000000000001000000010000000000000000000000000000000000000201500000120000100000100000000000000000000000000000000000000000000000000000201501000100000000000000000000000000000000010000000000000000000000000000000201502000100000000000001000000000010000000000000010000000000000000000000000201503000100100000000000001000000000000000000000000000000000000000000000000201504000100000000000000000100000000000000000000000000000000000000000000000201505000100000001001000000000000000000000000000001000100000000000000000100201506000100000000010000011000000000000001000001001001000000000000000010000201507000100000000000000000000000100000001000000000000000000000000000000000201508000100000000000000000000000000000100000001000000000000000000000000100201509000110000001010000000000000001110000000000100002010000000000001000000201510000100000000000000000101000000010000000000000000100001000000000000000201511000101000000000011010000011000002000000000000000000000001000000000001",
    "201512000100000000100110000000000000000000000000000000000100000000000000000201513000100000000000000000000000000000000001000000000100000000000000100000201514000100000000000000000001000000100000000000001000010000000000000000000201515000100000000000000000000000000000000000000000000010001001000000000000201516000100000000001000000000000000000000000001000000000100000000000000000201517000100000000000000000010000000000000000000000000000010000000000000000201518000101000000000000000000000000000000010000000000000000000000000000000201519000100000100000000000000000000100000011000000001000000000000000000000201520000100000000000000000000000000000000000000000000000000000000000010000201523000100000000001000001000000000000000000000000000000000000010100000000201524000100000000000001000001000000000000000000000000001000000000000000000201525000100000000000000001000001000000000000001010000000000000000000000000201526000100001000100000001200000000100000000000000000100000000000000000000201527000100000100011000000000000000000000001000000000000000000000000000000201528000110000000000000000000000000000000000000000000010000001000100100000201529000100100000000000000000000000000000010000000000000000000100000000000201530000101001000000010000000000000000000000000000000000000000000010001001201531000100000000000000000000000000000000000000000000000011200010000000001201532000100100000000000000000000000000000000000000000000001100000110010000201533000100000000000000000000000000000000000000000000010000100000000000000",
    "201534000100000011000000000001000010000000000000010000000000001000000000000201535000100000000000000001000010000001000000000000000000000000010000100000201536000100000000001000000000001010000000000000000000000100000000000000000201539000100000000000100000000000000000000000000010100000000001000000010000201540000110000000000000000000000000000000100000000000000200000000000000000201541000100000100011000000000000000000000000000000000000010010000000000000201542000100000000000000000000000000000000000000000000000000000000000000000201543000100000000000000001000000001000001100000000000000000000000000000000201544000102000000000001000000000000000000000000010000000000100000000000000201545000100000000000100000000001000000000000000010000000000000000100000000201546000100000000000000000000000000000000000000000000000000000000000000000201547000100000000000000000001010000000001200001000000000100000000001000000201548000100000000000001000000000100001000000100000000000000000000001000000201549000100000000000100000000100000000000000000000000000000000000000000000201550000100000000000000001000000000000000000000000000000000000000001000000201551000100100000000000000210000000010001000000010000000000001101100000000201552000100000000000030010000000000000000000100010000000100000120000000010201553000100000001001000010000000000000000000000000000000000000000000000000201554000100000000000000000000000000000000000000000000000000000000000000000201555000102000000000000000000100000000000000000000000000001000001000000000",
    "201556000100010010000100001000000001000000001000100000100000000100000000000201557000100100000000000000000000000000000000000000000000000000000000000010201558000100000001000000001000000000000000000000100000000000000000000000000201559000100000000000000000000000000000000001000000000001000000000000000000201560000100000000000000000000000000000000000100000000000000000000000000000201561000101000001010000000001000000000000000000000000000000000000000001000201562000100000000010100000000000000000000100000000100000000000000000000000201020008100000000000000000000001000000000000000000000000010100000000010000201020009100000000000000000000001000000000000000010000000000000200000000200201020010100000000000000000100000000010000010010000000000000000000000000002201020011100000010000002000000000000000000000000000000000010000000201100002201020012100100011000000000000000000000000000000000000000000000000000000100201020013100001000000000000000000010100000000200100000001001001000000000000201020014110000000000000000000100000000000000000000000001000000100010000000201020015100000000000000000001000010000000000000000020000000000000000000000201020016100000000000000000000000100000000000000000000010000000000010000000201020017100000000000000000000010000000000000000000000000000010101000000000201020018100000000100000000010000000000000000001000000000000000000000000000201020019100000000000000001000000000100000000000000000000000000100000010100201020021100000000100000000000000000000001000000000000000000000000100010000",
    "201020022100000000001000000001000000000000001000000000000000000000000001000201020023110000100100000000000000000000000000100001000100000010000000000000201020024100001000000000000000000000001010000100100000000000000000100000000201020025100000000000001010010000000000000000001000100000000000000000000002201020027100000000000000000100000000000000000000000001100000000000000000000201020028100000000100000000000010000000010011000000000000010000000100010000201020080100001000000000000000000000000000000000000000000000000000000000000201020029100000000000000000000000000000100000001000000000000000000000000000201020030100000000000000000000000001000000100000000020000100000000000000000201020031100000010000000010000000000000002000010000000000000000000001000100201020032100000000000000000000000000000000000000000000000000000000000000000201020033100000000000110100000002000000001100000000000000000000000100000001201020035100000001000000010000000010000000000000010000010100000000000000010201020036100000000000000000000000000000000000000100000000000000000000000000201020039101000000000010000000000000000001000000000001000000000200000000000201020040110000000000000010000001000000000010000000000000000000000100000000201020041100000000000000100000001000000100000000000000010000100000000000100201020042100000000010000000000000000002001001001000010000000011000000000000201020043100000000000000000000100000000000010002000000000000000000001000000201020044110000000000000000000000000100000000000000000000000000000011000000",
    "201020046100000000000000000000000000000000000100000000000000000000000000000201020049110000000000100000000000000001100000000000000000000000000000000000201020053100000000000000000000000000001001000000000000000000000000000000000201020054100000000000100000000000000000000001000000000000000000000000000100201020058100000000000000010000000000100010000000000010000000000000001000000201020060101000100010000000000000000000000000000000000100100000000000100100201020061100000000000000000000000000010000000000000100000001000000000000000201020081100001100000100000000000000000000000000000000000000000001010000000201020082100010000010000000000000000000000000100000001000200000000000000000201020083100100000000001000000000000000000000000000000000010000000000000000201020084100000000001000010000010010010000000000000000100000000000000000000201020085100000000000010000100100000000000000000000000000000100000010000000201020086100000000100000000000000100010000000000000000000000000000000000000201020087100000000010000010000000000000000000010001000000000000000000000000201020088100000000000000000000000000000000000010000000000000000000000000000201020089100110000000000000000000000000000000000100000010000000000000000000201020090100000000000000000000000000000010120000000100000000000000000000001201020091100000000000000001000000000000000010000000000000100000000000001000201020092110000000100000001000000000000000000000000000000000000000100000000201020093100000000000001000000000010000000000010010000000000000000000000000",
    "201020094101001000000000000000000000000000000000000010000000100000000000000201020095100000000000000000000000100001000000100000001000000000000000100000201020096100000000000000000000000000000000000010000000000010010000000000000201020097100000000000000000000000000000000000000000001000000000000000000000201020098100100000000000000000000000000000100000000000000000000100000000000201020099100000000000001000000000001000000000000000001100000000000000000000201020100100000000000000000000000000000000000000010100000000010001000000001201020101100001000000000000000010000000000000000000000200000000000010000000201020102100000000000000000000000000000001000000000000000000000110000000000201020103100000000011001000000000000000000100000000000010000000001000000000201020104100000200001000000000000000000001000000100000100000000000000000000201020105100000000000000000000000000000000000000000000000000100000000000000201020106110000000000000000010000000001010000000000100000000010000100000100201020107100001000000000000001000000000000000000000000000000000010000000000201020108100000000000000000000000000010000000000000000000000000000000010001201020109100002002000000000000000000000000000000000000000000000000000000000201020110100000000000000000000001110100000000010000010000000000000000000000201020111100000000000000000000000100000000000000000000000010000000000000000201020112100000000000000001000100000000000000000000000100100001000000000000201020113100000000100000000000000000000000010000000000000000000000001100000",
    "201020114101000000001000000000000000000000000100000000000000100110000001000201020115100100000000000000000000000000000000000000010000000000100000010000201020116100000010000000000000000001000000000000000000000000000000001000000201020117100010010001000010000000000000000000100000000000000100000000000000201020118100100001010000000100000000000001000201000000000000000000000000100201020119100000000000000000000000000000000001000000000000000000000000100000201020120101000000011000000000000000100000000000000000000000000010000000100201020121100000000000000000000002000000000100000000010000000000000000000000201020122100010000000000000001000000020000000000000001000000000010000000000201020123100000000001001000000000001000000100000100000000000000100000000000201020124100000100000000001110000000000000010000000000000000000000000000000201020125100001000000000000000000000010200001000001000000000000000000000100201020126100000000000001000000000000100000000010000101110000001000001000000201020127100000000000000000000000100001100000000000000000000000000000000000201020128100000000000010000000000000000000000000000000000000000001000000000201020129100000000000010000001000000000000000000000000000000000000000000000201020130100000000000000000000000000000001010000000010011000000000000000100201020131100000011000000000000000000000000000000000110010000000000000000000201020132100000000000100001001000000000000010000000000000000000000000000000201020133100000000000000000000001000000000000000000000000100000000000000000",
    "201020134100000000100000000000000100000000000000000001000000000000000000000201020135100000000010000010000000002001000000100000000000000100000000000000201020136100000100000000002000000000000000001000000100000000000000001000000201020137100000000000000000000000000000000000000000000000100000000001000000201020138100000000001000000000000000000000000100000000000000000000000000000201020139100000000100000001000000000000000010000000000000000000000000000020201020140100000000000000000000000000000000001000000001000001000000000000010201020141100000000000010000000000000000000000000000000000002000000000010000201020142100000010000000000000000000010000000000000000000000000000000000000201020143101000000000001000100000000000000000000000000000000000000000000000201020144100000000000000000000000000000000000001000000100000000000000001000201020145100000000000000000000100000000000000100000000000000000000000000000201020146110000100000100000000000000000000000000010000000000000000000000000201020147100000000000001010000000000000000000000000000000000000010001000000201020148110000000000001001110100000000000000000001000000000000010000000000201020149100001010000000000000000000000000000000001000000000000000000000000201020150100000001000000000000000000000100000000010100100000000010000000000201020151100000100000010000100010000000000000000100000000000000000000001010201020152100000000101000010000000100001000010000000001000000000001001000020201020153110000100010001000001000000000000000000000100000000000000000000000",
    "201020154100000000000000000000000000001000000000001000000000000010000000002201020155100000000000000010000000000000000000000000000000000000000000000000201020156100000000000000001100000000000010000000110000010101000010000000000201020157100000000000000001000010000200000010001000000000000000000000000000201020158100100000000000000000000000000100000000000000000000000000000000000201020159101000010000000000000100000000000000000000011000000010000000000000201020160100000000000000000000010000000000000000000000000100000000000000000201020161100000000000000010000000000000000000000000200000000000000000000000201020162100000000000000000000000001000000010000000000000100000000000000000201020163100001000000010000000010000000000000000000010000000001100000010000201020164100000000000000000000000000100000000000000000000000000010000000000201020165100000000000000000000000000000000000000000000000000000000000000000201020166100000000000000000000011000000000000000100000000000000000000000000201020167100000000100000000000000000000110000000000000000000000000000000000201020168100000000000000000000000000000000000000000000000001000000000010000201020169100000100200000000000000000000000000000000000002000000000000000000201020170100000000000000000000000000000001000000000000000000001000000000000201020171100000000000010000010000000000000000001000000000000100000000000000201020172100000100000000000000000000000000000000001000000000000000000000000201020173121000000000000000000000000000000000000000000000000000000010000000",
    "201020174100000000000000000100001000000010010000000000000001000000000000000201020175100000000000100000000000001000000000000000100000000000000000000000201020176100000000000000000000000000000000000011000000000000100000000000000201020177100000000000000000000000000000001000000000000000000000000000000000201020178100000000000100100000000000000100000000000000100000000000000000000201020179100000000100000000000010000000001000000100000000000000000000000000201020180100000100000000002011000001000010000000000100000000000010000100000201020181100000000000000001100000000100000000011000000000100000000000000000201020182100000100100001010000000000001000000000000000000000000000000000000201020183100000000000000001000000000000002000100000010000100300000000000000201020184100000000000000000000000000000000100000000000000000000000000001000201020185101000000000000100000000000000002000010000000000000000000000000000201020186100000000000000000000010000000000000000100000000000000000000000000201020187100000000000020000000100000000000000000000000000000001000000000000201020188100100000100000000000000010100000000000000001000000000001000100000201020189110000000001000000000000000000000000000000000000100000000000000010201020190100000010000000010000000000000000000000000000000000000000001000000201020191100000000000000000000000000000000000000000000000001000000000000101201020192101000000000000000001000000000000000000000000010000000000000000100201020193100000000100000100000000000000000000000000000000000000000000000000",
    "201020194100000000000000000000000000001000000000000000000000020000000000000201020195100002100000000000000000000000000000000000000000000000010000000000201020196100000000000000000000100000000000100000000000000000000000001000000201020197100000000000000000010010000100000000000000000000000100000100000010201020198100000000000000000001001000000000000000000001000000000000000000000201020199101000000000000000000000000000100001000000000000000001000000010000201020200100010000000011000000000000000110000000000000000000000000000000000201020201100000000000000000000000000000000000001001000100100000000000000000201020202100010001000000000010000000000000000000001000000000000000000000000201020203100000000000000000000000000000000000000010000000000000000000000100201020204100000001000000000000000020000100000000000000010001000000000000000201020205101000000000000000000000000000000000000000000000000100000100000000201020206100000000000000000010000000000000000000000000000000000000000100000201020207100001000000000000001000000100000000100000000000000001000010000000201020208100000000000000100000000020000000010010000001000000000000001000000201020209110000000000000000000000000000000000000000000000000100000001000000201020210100000000000000000000000000000000010000000000000000000000000000000201020211100000000000000000000000000002000000010000000000000000000001000000201020212100000000000010000000000000000000000000001000000000000000000010000201020213100000000000000000000000000000010000000010000011100100000000000000",
    "201020214100000000000000000001000000000100000000000000000000000000010000000201020215100001000010100000001010000010000000000000000000000000000000000000201020216100000000000000000000000000000001010000000000000000000000010000001201020217100000000000000000000000000000000000000000000000001001000000001001201020218100100000020000000000000000000001000000000000100000000000000000000201020219100000000000000000000012000000000001000001001000000000000000000010201020220100000000000000000000000000000000000000000000000000000000000000000201020221100000000000000000000010000010000010001000000000000010000000000000201020222100000000010000000000000000000000000000000001000010000000010001000201020223100000000000100000100010000010010000000000010000000000000000000001201020224100000000000000000000000000100000100000000000000000000001000000000201020225100000101001110000010000000000000000000010100000001000000000000001201020226100000000000000100000000200000000001000000000000000010000000000000201020227100000001010100000010010001000011000000000000000000000000000000000201020228100000000000000001000001000000000000000000020010000000000000000000201020229100000000000000000000000100000110000010000001000000000000000000000201020230100000000000000000000000000010000000000000000000000000001000000000201020231100000000000001000000000000000000000000000000000000000000000100000201020232100000000100000000000000010000000000000000000000000000000000000000201020233100000000000000000000000000100000000000001000001000000002100000000",
    "201020234100000000100000000000000000030000000000000000000000000000000000100201020235100000000010000000000000000000000000100000000000000000010001000000201020236101000000000000000010000000000010100000000000000000000000000100000201020237100001000100000000000000000000000000000000000000001000000100000000201020238100000000000000000000000000001000000000000000010100000000000000000201020239100100000100100000000000000100000000000000000000000000010000000000201020240100000000000000000000000000000000001100001010010000000000000000000201020241100001000000000000000000000001000000000000000000000000000110000000201020242100001000000000000010000000000000000000000000000000000000000000010201020243100000000000000000000000000000020000000000100000000000001000000000201020244100000000000000010000000000001000000000000000000000000000000000000201020245100000001000000000000000000100000000001000100000000000000000000000201020246100000000000000000001000000000000000000000000000100000000000000010201020247100000000000000000000000000001000000000000000000000000000000000000201020248100000001000000000000000000000000000000010000000000000010002000000201020249100000000000000000000001000000000000000000001100000000000000000000201020250100100000000010000000000000000010000000000000000000000000000000000201020251100000000000000000000000000000002000000000100000000000001000000000201020252100100000000100000000000000000000000000000000000000000000000000000201020253110000000000000000000000000100000000001000000010000000000000100010",
    "201020254110100001000010010000000000010000000100000000000000000000010000000201020255100000000000000000000000000000000000000000000000000000000000000000201020256100000000000000000000000010000000000000000100000000000100000000000201020257100000000000000000000000000000000000000000000000000000001000001000201020258100000000000000010000000000000000000000000000000000000000000000000201020259100000000010000000000000000000000010000100000000000000000000010010201020260100000000000000000000000001000000000000000000000000010000000000000201020261100000000000000001000001000000001000000000000000000000000000000000201020262100000000000000000010100000000000000000000000000000000000000000000201020263100010000000000000000000000000000000100000000001000000000000000000201020264100000000000000010000000000000000000000000000000000000000010000000201020265100000100000000100000000100000000000001100000000000001000000100000201020266100000001100000010100000010000000000000000000000000000000000000000201020267100010000000000000000000000100001000000100000000000100100000000000201020268100000000000000001001000000000000000000000000000000000000000000100201020269100002011000000000000000001010000000000000000000000000000000000000201020270100000000000000000000000000000000000100000000000000000000000000010201020271100000000000000001000000000000100000111000000010010000000000000200201020272100000000000000000000000010000001010000000000101000100010000100010201020273101001000000000000100000000000000000100000000000000110000000001000",
    "201020274100001000000000000000000010000000000001000010100000000100000001000201020275100000000000000000001000000000000000000020000000000001100000000000201020276100000100000100000000000000000010000010000000000000100010010000011201020277100000000100000000000000000000000000000000000000000000000000000000201020278110000000101001000000000010000000000001001000000000000100000000000201020279100000000000000000000100001000001000001000101000000000000000000000201020280100000000100000001000000000000000000000000000010000000000000000000201020281100000000100000001000000000000000000000000000000000000100000001001201020282100000010000000000000000000200200001010000000000000000000000000000201020283100000010000000000000000000101000100000000000000000100010000001000201020284100001000000000000000000000000000000100000000000000000001000000000201020285100000000000100000100000000000000000000000002001000000000000000001201020286100000000000000000000000000000000000000000001000000000000000000000201020287100000000001000000000010000000000000000000000000000100000000000001201020288100000000000100010000000000000000000000000002000000000000000000000201020289100000002000000000000000000000000000000010000000000000000000000000201020290100000000000000000000100100000000000010000000101000000000000000000201020291100000000000000000001000000000000000000000010000000000000000100000201020292100000010000000010000000001000000000000000000000000000000000000000201020293100000000000000010000000000000000000010000000000000000000000000010",
    "201020294100000100010000010000000000000000000000000000000002000000000002010201020295100000000000000000000000000000000000000000000000000000000000000000201020296100000000000100000000000000000000000000000000000100000000101000000201020297100310000000000000000000000000000000000100000000000000000000000000201020298100000000000010000000000000000000100000000000000000000000000000000201020299100110000000000000000000000001000000000000001000000000000000000000201020300100000000000020000010000000000000000000000000100100000000000000000201020301100000001000000000000010010000000000000000100000000000000000000000201020302100100000000000000000000000000000010000010000010000000000000000000201020303100000000000000000001000000000100010100100000000100000000000000000201020304100000000000000000000000000000100000010010000000000010000001000000201020305110000000000000000000000000000000000000000000000000001000000012000201020306100000000000000000010000000000000000000000000000000000000000000000201020307100000000010000000000000000000000000000000000000001000000000000000201020308100000000000100000001000010000000000000000000000010000000000000000201020309100000100100000000000000000000100000000000000000000000010000000000201020310100000000000000000000000000000000000100000000000000100100000000000201020311100000000000010000000201000000000000000100000000000000000000000000201020312100000000020000000000003000100000000000000001000000000010100000001201020313100000000000000000000000100000010000000000000010000000000000010000",
    "201020314100000000000000010000100000000100000100000000000010100000000000000201020315100010010000000000000000000000100010000000000100000000000000000000201020316100100000010000000101000000000000000000000000000000000000000101000201020317100100000000000000000000000000000000000000100000000000000000000000201020318100000000000000000000000000000000000000010000000000001001011000000201020319100000000000000000000010000000000000000000000010000000000100000002201020320100000000000000000000000000000101000000000000000000000000110000000201020321100000000000000000000000000000000000010001000000000000000000100000201020322100000000000000000000000010000000000000000000000000000000000001000201020323100000000100000000000000000000000000000000001000020000000000010000201020324110000010011000000000000000010001010000000000000000000000000000000201020325100000100010001010100000000000001100000000000000000000000010000000201020326110100000000000000000000000000000000000000001000000000000000100000201020327100000000000001000000000000001000001000000000000000101000000000000201020328100000000000000000000001030000000000000000000000000000000000000000201020329100100000000000000000000000000010000000000001100000000000000000000201020330100000000000000000002000000000000000100000000000000000000000100000201020331100000000000100000000000000010000000000000000000000000001000000000201020332101000000000100000000000010010000000000000000000000000000000000000201020333100100000000000010000000000000000000020000000000101000000001000100",
    "201020334100000000000000010000000000000000000000000000000100000000000000002201020335100000000000000000000000000000000000000000000000000000100000000001201020336100001000000000000010000100000000000000000000000000000100000000000201020337100000000000000000000000000000010000002000000000000000000000000000201020338100010000000000000000000000000000000000000001000000000010000000000201020339100200000000000000000000000000000000000010000100000000000001000000201020340100000000000000000000000000000000000100010000000010000000000000000201020341100000000000000000000000000000000001000000000000000000000000000000201020342100000000000000000000000000000000000001010000000000000000000000010201020343100000000001100000001001000000010000000000000000000000101000000000201020344100000000000000002000000000000000010000000000000001000000010000000201020345100000000000000010000010000000000000000000000000000000000100000002201020346100100100000000200000000000000000000000000000000100000000000010000201020347100001000000000000001001000000000000100100010000000000000000001000201020348100001001000000000000000010010100000000000000200000000000000000000201020349100000100000000000000000000001000000000100000000000000000000000010201020350100000000000000000000010001100000000000000010000000100100000000000201020351100000100100100000000001000000000000000000000100000010010001000000201020352100010000000010000000000000000000000001001000000000000000000000001201020353100000000000000000000100010000000000000000000000000000010000000000",
    "201020354100000000000000000000000000000000000000000100100000101100000000000201020355100000000010000000100000001000000000000000000000000001000000000000201020356100010010000000000000000000000000000000000000000000010000000000000201020357100010000000000000000000000100000000000010000000000000000000200000201020358100000000100000000000000000000010000000000000001000000000000010000201020359100000000000000010010000000000000000010000000000000000001000000010201020360100000000000000010000000000001000001001000001000000000000000000000201020361100000000000000000101000100000000000000001000000000000000000000000201020362100010000000010000000100000000001000000000000000000001000000000000201020363100000000000000000000100000000000000000000000000101000000000000000201020364100001000000000000000000000001000000000000010000000000000010000010201020365100000000000000000100000000010000000000000000001000000000000000000201020366100000000000000000000000010000000001200100000000011000001011000000201020367101000000000000000000000000100100000000000000000000000000000000000201020368100000000000000000000000000000000000000000012010000000000000010000201020369100001100000001010000000000001000000000000000000000000000000000010201020370101010000000000000000000000000011001000010000000000000100000011000201020371100000000000100000000000000001010000000000000000000000000000000020201020372100000000000000000000000000000000000000010000000000000100000000000201020373100001000000100000000000000000001010000100010000000000000000000000",
    "201020374100001000010000000000010000000000010000000000000010000000000000000201020375100000100000001000000000000000000000000100000000000010000000001000201020376100001000000000000010000000000100000000000010000000000000000000000201020377100000110000000000000100000000000000110000000000020000010000000010201020378100000000000000000000000000300000000000000000000000000000000000000201020379100000000000100000000100000000000000000000000001000000010000000000201020380100101000000000100000100000000000010000000000000000000000000000000201020381100000011000000000000000000000000000000100010000100000000100001000201020382100000000010000000000000000000001000000000000000000000000000000000201020383100000000000000000000000000000000000000000000000100000000000000000201020384100001000000010000000000100000010002000001000000000100110000000001201020385100010000000001100000000000001000000000000100000000000001000000000201020386100110000000000000000001001000000000000000010000000000000000010000201020387100000000000000000000000000000000000000000000000000000010000000001201020388111000000000000000010000000000000000000000000000000000000000000000201020389100000000000000000000100000000000010000000000000000000000000000000201020390100010000000000100000000010000000000000000000000100000000000000000201020391100000010000000000000000000000000010100000000000000000000000010000201020392100000000010001000000000000000000000000000000000000010001000000000201020393110000001000000000000000000000000000000000000000000000010000000000",
    "201020394102101000000000000000000000000000000000000000000001000000100000000201020395100000000000000000000000000000010000000010000000001000000000000000201020396100000000010000000101000000000000000000000000000000101000000001000201020397100000001000000010000000000110000000000000000000000000010010000000201020398100010000000000000000000000000001000001000000000000000000000000000201020399100000000001000000000000000100000000000000000000000001000010010000201020400100000000000000000000000000000100001001000000000000100000000000000201020401100000000000000000000000000000000000000000000000000000000000010000201020402100000000000000000000000000000000000000000000000100000000000000000201020403100011001000000010000000000000000000000000000000000000000000000000201020404100011000000000000000000000000000010000000000000010000001000100000201020405100000100000000000000000000000000000000000000100000001100000000000201020406100000000000000000000000000011110000000000002100000000000100000000201020407100020010000000000000000000010000000000000000100000000000000000000201020408100000001000000000000000100000000101000000001200000001100000010000201020409100020000000000000010000000000000000000010000000000000000000001100201020410100000000000000000000100000000000000100000000000010000100000000100201020411100000000000000101001000000100000000100000000000000101010000000000201020412100000000000002010000200000000000000000000000000000000000000000000201020413110100000000000000000000000000000000000001100000000000000000000000",
    "201020414100001001100000000010000001000000000000000010000000000100000000001201020415100000000010110000000000000002000000000000001000000000100000000000201020416100000000000000000000000000000000000000000000000000100000000001000201020417100000000000000000000000000000000000000000000000000000010110000000201020418100000000000000000000000000000000200000001000000000010000000110000201020419100000100020000000000000000000011000010000100000100000000000000000201020420101000000000000110100000000010000000000000000000010000000000000000201020421100000000000000000000000000000000000000000000001000000000000000000201020422100101000000001000001000000000000000000000010000000000000000000000201020423111000000000000000000000000000000000000000000000001000100000000000201020424100000000000000010000000000000000100000000000000000000000000000010201020425100100000000000000000000000000000000000000000010000000000000000000201020426100010000000010000000011000010001000000000000020010000100000000000201020427101000001000000000000000000000010000000000100000010000000000000000201020428100110000000100000000000000001000000000000100000100000000000000000201020429100000000000000000000000000000000001000000000000001010001210000000201020430100000000000010000000100000000000000000000000010000001000000000000201020431100000000300000000000000000000000000000200001000000000000000000000201020432100000010000000000000000000000001000000000000000000000000000000000201020433100000000000000000000000000000000000000000000000000000000000000010",
    "201020434100000000000000201000000000000000000000000000000000000000000000000201020435100000000000000000100000000000001000000100000000000000000001000000201020436120000000000000000000100100000000000000000000100000000000000000000201020437100011000000000000000001000000010000000000000000000000010000000011201020438100011000000000000000000000000000000000000000000000000000000001000201020439101000000000000001000000000000000000000000000000000000100000000000201020440100010010000000000000000001000000010000101010000000000000000000000201020441100010000000000000000000000000000000000001000000000010100000000000201020442100100010000100000010100000000000001000100001000000000000000000000201020443110000002000000000000000000000000000010000000000001000000000100000201020444100001000000000000010000000000000000001000000000000000000000010000201020445100000100000001000000010000000000020000000000000000010000000000000201020446100010000000000000000000000000000000000201000000000000000000000100201020447100000000000002000000000100000000001000000000000000000000000000000201020448100000000000100010000000000010000000000001100000000100000000000000201020449100000000000001001000000000010000100000000000000000000000000000000201020450100000000000000000000000000000000000000000000000000000000000000000201020451100000000000000000000100000000000000100000000000000000000000000000201020452100000000000000000000000000000000000000000000000000000000000000000201020453120000000000000000000000000001000000010000000010000000000000000010",
    "201020454100000100000000000010000000000000000000000000000000000000100000010201020455100000000000100010100001110000000000000001000000010100000100000000201020456100000000001000000000000000000000000000000000000000010001000000000201020457101000000000000000000000000000000000000000000000000000000000000000201020458100100000000000000000010010000000000000000000000000000000000000000201020459100000000000000000000000000000000100001000000001000010000000000100201020460100000000000000000000000000002100000001200001000100000000000000000201020461100000000100000000000000000000000000000000100101100000000100000000201020462100000000000100000110010000000000000000000000100000000000000000000201020463100000000100000000000000000000000000001000000000110000001010000000201020464100000000000000000000000000010101000000000000100000000000100010000201020465100000000010100000000000000000000000001000000001000000000000000000201020466100000000000000010100010000000000000100000000000000000001000000000201020467110000000000000100000000100000010000000000001000000110100000000000201020468100000100000001000000000000000100000000000000000000100000000000000201020469100000000010000000000000000000000000000000000010000000000000000100201020470100000000000001000011000000000000000000100000000000000000000000000201020471100000000000000000000010000000000000110010000000000000000100000200201020472100100000010000000010000000000000000000000000000000000010100000001201020473100002000000000000000010000000000000000000000010000000000000000000",
    "201020474100000100000010000000000000000000000000100000000000000000000000001201020475100000000000000000000000000000000000000000000000000000010000000000201020476100000020000000000000000000000001001000000010000000010000000000001201020477100000000000000200000000000000000000100000000000000000010000000000201020478100000100000000000000000000000000000000000100000000000002000000000201020479110000000000000000000010000000000011100000100000000010000000000000201020480100000000000000000000000000000000100000000000000100000000000100000201020481100000000000000000000000001000000000000000001100000000000000010000201020482100000000000000000000000000000000000000000000000000000000000000000201020483100000010000100000000010000000000000101000000000001000000000000100201020484101000000000000000000100000000100000000100000000000000000000000000201020485100000000000000000000000001200000100100000000001000000100000000010201020486100000000000000000010000000000000010000001000000000000000000000001201020487110000000000000010100000000000000000010000000000000000000000000000201020488100000000000000010000000110000000000100010000000000000000100000000201020489101000000100000000000100000000000000000000000000000000000000010000201020490100000100000000000000000000000000000000000100000000000000000001101201020491100100000000100010000000000000000000000000000000000000000000000000201020492100010000001000000000000000000000000000000000000001001000000000000201020493100101000000000000100000000000000000100000000000000100000000000000",
    "201020494100001000000010000000000000000000000000000100000000000000100000000201020495100000000000000000000000000020000000000000000000000000000000000000201020496100000000001000010000000010000000000000000000000000000000000000000201020497100000000000010000000000000000000000002000000000000000000000000100201020498100000001000000000000000000000000000000010000000000000001000000000201020499100000000000000000010000000010000000000000000000000000000000000000201020500100000000000010000000000000000000000000000000000000000000000000000201020501100000000000000000000000000000100000000000000001000000100000000000201020502100000000000000000001000000000000000000000000000000000000000000000201020503101100001000000000000010000000010000000000000001000000100100000000201020504110000000010100000000000000000000000000000000000000000000000000000201020505100010000000000000000000000000000000000000000000000000000000000010201020506100000000101000000000000000000000000000000000000100000000000100020201020507100000000000000100000000001000000000000000000100010000000000000000201020508110000100000000000000000001000000000000000000000010000000000000000201020509100000000000010000000100000000100000000000000000000010000000000000201020510100000000000000000100010000002000001000000000000001000000000000000201020511100000000000000000000000000000000000100000000000000000000000000010201020512100000000000000000000000000000001000000010010000100000000000000100201020513100100000010000000100000000000000000000000000000000001000000000000",
    "201020514100101000001000000000000000010000000000000000010000000000000000000201020515100000000000001000000000000000000000200000001000000000000100001000201020516100000000000000000000010000000000000000000000000110000000000000000201020517100000001000100001011000000000000000000000000000000000000000000000201020518101000000000000000000000000000000000000000000000000000000100000000201020519100010000000000000000000000000000000001000000000010000000000000001201020520100000000000000000000100000000000000000010000100000000000001000000201020523100000011000000000000000000000000000000000000000001010000000100000201020524100000000000000000000000000000000000000000010000000100000000001000201020525100000000010000000000000000000000100000000000000100000000100000000201020526100100000000000110001100000000100000100000000000110000000000000000201020527100000000000000000000000000000010000000100100010000000000000000000201020528100000000000000000000000000000000000000001000000000000000000000000201020529100000000010000000000000000000000000000010020000000000000000000000201020530100010000000010100000000000100000010000001100000000000000000000000201020531110000100020000000000000001000000000201000000000000000000000000000201020532110100000010000000000000000110000000000001100000001100000000000000201020533100000000000000000000000000100000000000000001000001000000000100100201020534110000000000000000000000000000000000000000010000000010000000000000201020535100000000000000000000000000000000001000000002010000000000000000001",
    "201020536110000000000000000000000020000000010000000010000000000000000000000201020539100001000010000000000000000000100000000000000001010000000000000010201020540100100000001010000200001010000000100000000010000000000000000000000201020541100000010000101000100010000000000001010000001000000000000000000000201020542100000000000000000000000000000100000000000000000001000000000100000201020543100000000000020000000000000000000000000000000000000000100000000000201020544100010000000000000100000001000000000000000000000000000000000000000201020545100000000000000000000000000000000000000000000010000000000000000000201020546100000011000000000000102000000000000000000000000000000000000000000201020547100000000000000000000000000001000010010000010011010000000100000000201020548101000000000000100000000000010000000000000000001000000000000100000201020549100002000010000000000000100000000010000000000000000000003000000100201020550100000000000000000000000000000000000000000000001000000000000100010201020551100000000000100000000000001000000000001000000000000010000000000000201020552100000010000000000000010000000000000000000000000000000011000000000201020553100010000000000000000000000000000000000000000100000100000000011000201020554100000000010000000000000011000000001000000000000000000000000000000201020555100010000000100000000002000000000000000000000100000000001010000000201020556100000000000100000010000000010000000000000000000000000000000000001201020557100000100000000100000000001000000000000000100000000000000000000100",
    "201020558100010000010000001000000000010000000000000101100000000000000000000201020559100000000000000000000000000000000001000100000000000000000000000000201020560100010000000000000011000000000100000000000000000000001000000002000201020561100000000010000000001000000000000010100000000000000000000000100000201020562100000000000000000000000000100000010000000000000000000000000000010201026002100000000000000000000000000000010000000000000000000000000100001000201026004100000000000000000001000001000000000000010000000000000000000010000201026006100000000000000000000000000000000000000000000000000000000200000100201026008110000001000000000000000101000000000000000000000100000000000000100201026009111000000000001100000000000100000000000000100000000000000000000000201026010100000000000000000000000000000000000010000000000000010000000000000201026011100000000000000000000000000000000000000000000000000000000000010000201026012100000000000000010000000000001000000000000000000100001000000000000201026013100000000000010100000000000100000000100000000000100100000000000000201026014100001000000000000000000000000000000000000000001000000000000000000201026015100100000000000000000000020000001100000010000000000000000000000000201026016100010000000000000000100000000000001000000000000000001000000000000201026017100000000001000000000000000000000000000000000010000000000000100000201026018100000000000000000000000000010011000000000000000100000000000000000201026019100000000000000000000000000000000000000000000000000000000000100000",
    "201026021100000010000000000000000000000000000000000000000000000000000000000201026022100000000000000000000000000010000000000001000000000000000000000000201026023100000000000000000000000000000001000001000000000000100000000000000201026024100000100000000000000000000000001000000000000000000000000000000001201026025100000000011000000000000010010000000001000000000000000000000001000201026027100000001000000000000000010000000000000000000000010000001000001000201026028100000000000000000001000000000000001000000000000001000000000000000201026080100000000000000000000000000100000000001000000000000000000000000000201026029100001000000000000000000000000000000001000001000000000000300001000201026030100000000001000000000000000000010000000000000000001000000000000010201026031100010000000000000000000000000000001020000000010000000000000000000201026032100000001000000000000000000100000000000000000000000000000000000000201026033100000000000000000000000000000000000100001000000000000000100000000201026035100001000000010000000001000000000000001000000000000000000010000000201026036100000000000000000000000001000000000000000000000000000000000000000201026039100000000100000000002100000000000000000000000000000000000000010000201026040110000000000000001000000010100000000000000000000000000000000000000201026041100000100000000000000001000000010000000001000000000000000001000020201026042100002000000000000000000000000000001000001000000000000000001000000201026043100000000000000000000000010000000001000000001000001000000000000000",
    "201026044100000000000000100000000000000000000100000000000000000000001000000201026046100000000000000000000000000000002000000000000001000000010000001000201026049100010001000000001010000000000001000000000000000000000000000000000201026053100000001000000000200000000010000000000000000200000100000000000000201026054100000000000000000000000000100010001000000000000000000000001010001201026058100000001000001000000000000010001000000000000000000000000000001000201026060100010000000000000000000000000100000000000000000000000000000000000201026061110000000000000000000110000000000000001000000000000000000000001000201026081100010000000000000000010000000001000010000002010000000000000010000201026082100000000000000000000000000000000001000010000000100001000000000000201026083100000000000000000000000000000000000000000100000001000000001000000201026084100000000100000010000000000000000000000000001100000000000000000000201026085100000000000000000000000000000000000000000000000000000000000010000201026086100000001000000000100000000001010010000000000001000000000000000100201026087100000000001000000000000000000000000000000000001000000000000000100201026088100000000000010000000000000000000001000000001000000000000000000001201026089100000000000001000000000000000001000000000000010000000000000001000201026090100000000000000000000100000000000000000000000000000100000001000000201026091100000000000000000000000000000000000000010000001010000000100000000201026092100010000000000000000000000000000010010000001000000000000000100000",
    "201026093100000000000000000000010100000000000100000001100010000000000000000201026094100000000000000000000000000000000000000000000000010000000000000000201026095100000000000000010000000000000000000000000000000000000000000000100201026096100000000000000000100000000000000000000000000000000110001000100000201026097101000000000000000000000000000000000000002000000000000100000100000201026098100000000000000000000000000002000001000010000000000000100000000000201026099100000000000110100000000000000001000000000000000000100100100000000201026100100000000000001000000000000000001000000001000100000010000000001000201026101101000000010000000100000000000000020000100000010000200000001000000201026102100000000012000000010000000000000100000000000000000000000000000000201026103100000000000000000000000000100000000000000000000000000000000000000201026104100000000000000001000000000001000000000100000000001010000010000000201026105100000000000000100010000000000002001000000000000000000000000000010201026106100000001000000000000010000001000000000000000001000001000000000002201026107100010000010000000000000000000000000000000000000000100000000001100201026108100000000000000100001100110000000000000000000000000000000000000001201026109100000000000300010110000000000000000110000010000000000000000000000201026110100000000000000000000000000000000100001000000100000000000000000000201026111100000000000000000110020100000000030000000000000000000000000100001201026112100000000000000000000000000000000000010000000000000000000000000000",
    "201026113101000000000000000100000000000000000000000000000000000000000100000201026114100000000000000100000000000000000000100000000010000010000000000000201026115100000000000000000000000000000000000000000000000000000000000000001201026116100000000000000000000000001000000000000000000000000000001000000000201026117100000000000000000010000000000000010000000000000101000000000000000201026118100000010010000000000000000000000011010000000000000000000000000001201026119100000000000000000010000000001000000000000100000000010000000000000201026120100000000000000000000001000000000000000000002000000000000000000000201026121100000000000000000020000000000000000000010000000010000000010001010201026122100000001000000000000000000010001000001001000000000000000000000000201026123100000000000000000010000100000000000000000000000000000000000000000201026124101000000000000000000000000000000100000100000000000000000000002100201026125100000000000000000001000000000000000000010100000000001000010000000201026126100000000000000100000000000000000000000000000000000000100000000010201026127100000000000000000001000010000100000010000001000000000000001000000201026128101000000000000000000100000000000000000000000000100000000000000000201026129100000000100000100000000000000000000000000000000000000000000001000201026130100010101000000000000000000000000000000100000000100010000000000120201026131100000000000000000000001000000000000000000000000000000000000000000201026132100000000000000000000000000000000000020010000000000001000000000001",
    "201026133100000000000000000000000100000000100000000000000000001000000000010201026134100000000001000000000000000001000000000000000000000000000000000000201026135100000012000000000000000000000010000000000000000000000000000000000201026136100001000000000000000000000000201000000000110000000000000000000000201026137100010000000101000010100000000000000000000000000000000000000001000201026138100000000000000000010000000000000000000001000010000010000000000000201026139100000000000000000000000000000000000000000000000000000000000000001201026140100001000000000000000001000000000000000000000010000010000000000000201026141100000000000000000000100000000000000000000000100000000000000000000201026142100010000000000100011000000000000000001000000000000000000000000000201026143100000000000000000001000000000000000000020000000000000000000000000201026144100000010000000000000000000000000000000000000000000100000000000000201026145100000000000000100000200000000000001000000000000000000000000000001201026146101002000010000000000000000011000000200000000000000000000010000001201026147100000000000010000000000001000200000010000000000000000000000000000201026148110010000000001000001000100100000000000000000000000000000000000100201026149100001000100000000000001100100000000000000000000010000000000000000201026150100000000001000010002000001000000001000000000000000010010000000000201026151101000000000000000000000000000001000000000100000000000000000000000201026152100000000000001000200000100010100000000001000000010000000011000000",
    "201026153100000002000000000000010000000000000010000000000000000000000000000201026154100001000000000000000000000000000000100000000000000000000000000200201026155110010000000000000000000100000001000010001100000000000000000000000201026156100100000000000101000000000000000000000000000000000000000000000000201026157100010000100000001000000000000000000000000000010000000000000000000201026158100000000000000000200001100000000000000000000002000000000000000000201026159100000000000000000000000000000000000000000000000000001100000000000201026160100000000000000010000000100000010000000000000100000000001000100000201026161100000100000010000010000000000000000000000000000000000000010000000201026162100000000000100100000000000000000000000000000000000000000000000000201026163100000100000010000000000001000000000000000000000001000000000000010201026164100000000000000100000000000000001000000000000000010000000000000200201026165100000000000000000000100000000000000100000000000000100000000000000201026166100000000000000010111000000000001000000010000000000000000000000000201026167100000000001010000000000000100000010000100000000000000010000010000201026168100000000000100000000000100000000000000000000100000000000000010012201026169100000000000000000000000000210000000000000000000000000000000000000201026170101000000010000000200000000000000000000000010000000000100000000000201026171101001000000000000000000000000000000000000000000000000000000000000201026172100000000000000010000000000000000001000000000000000000000000000000",
    "201026173100100000100000000100000000000000000000000000000000000000001000000201026174100000000010010000000000011000000200001000000100000000000000000000201026175100000010000000000000000000000000000101000000000000000001100100010201026176100100000000000000000001000010000100200100000000000000000000000000201026177100000000000000000100000010000000000000000000000001000100000000000201026178100000010000000000000100000010000000000110000100000000100010000000201026179100001000000000100000000000000000000100000000000000000000000010000201026180101000000000100000000000010000000000000000000000000000000000000000201026181100000000000000000000010010000002000000000000100000000000000021000201026182100000000000200100000000000000000000000100000010000000000000100000201026183100000000000000000000000000000000000000000000000000000000000000000201026184100000000010000000000010000000100100000000010000000000000000000010201026185110000000000010000000000000000000000000000000000000110000000001000201026186100000000000000000000000010000000000000000000000000000000000100000201026187100000000000000001000000000100000000000000000000000100000000000000201026188100000000000000000001000000000000000000000000000000000000000100000201026189100000100000110100000000000000000011000000000000000000000000000000201026190100000000000010000001000000000000001001010010000001000000100000000201026191100000000000000000000000001000000000000000000000001000100000000000201026192100000100000000010000000000000000000001000200000000000000000000000",
    "201026193100000100000000002000000000000000000000000000010010000100000000000201026194110200000000000000000010200000000000000000000000000000010000000000201026195111000000110000000000000000100000000100000000000000000000000010001201026196100000000000000000000000001000000000000000000000000000000000000000201026197100000000000000000000000000001000000001100000002000000000000000000201026198110000000000000000000000000000000000210000100000000000000000000000201026199100000010001000000000000000000000000000000000100000000000000000000201026200100000000000000000000000000000000000000000000000000000000000001000201026201100000000000100003000000000000000010000001001000010000000000010010201026202100000000000001000000000000000000000000000000000000000000000000000201026203100000000000000000000000000000000000100000000000000000010000000000201026204100000000000000000000010000000000000000000010000110000101010000000201026205100001000000000101000000001000000000000000000000000000000010000010201026206100000000000000001000001000000000000000000000000000000000000100000201026207100000001000000000010000000000000000000000000100000000000000000000201026208100000010000000000010000000000000000000001000000000000000000001000201026209100000001000000000000100000000000000000000000001000000000001000000201026210100100000000000000000000000000010000010000000000000000000000000000201026211100000000000000000010000000000000001000000110001001000000001000000201026212100000000000100000000000000000000000000000100000000000000000101000",
    "201026213100000110000000000000000000000000000000000000000000000200000010001201026214100000022000000000000000000000000000000000011000000000000000000000201026215100000000000020000000000000000010000000010000000000000000000100000201026216100000000000000200000000000000000001000000000000001000000010001000201026217100000001000000000000000000000000000000000000000000000000000000000201026218101000000000000000000000000100001000000000000000000000100000000000201026219110000000000000000000000000000000000000000000000000000000100000000201026220100000000000000000000010000000000000000000000000000010001100000200201026221100000000000000000000000000000000000000000000000000000000100000000201026222100000000000000000100000000000010000000000000000000000000000000000201026223100000000000000100000000000000000000000000000000001000000000000000201026224100000000000000000000000000000000000000000000000010000000000100000201026225100100000000000000000000000000000000000000000000000000001000000000201026226100000000001000000000110000000100000000000000000000000000000000100201026227100000000000000000000010000000100000000000000100000000000000000000201026228100000100000000000000000000000000000000000000000000010000000000000201026229100000000000000000000000010001000000000100000000000000000000000000201026230100000000000000000000000000000000000000000000100000000000000000010201026231100001000000000000000010000000000000000000000000000000000000000000201026232100000000001000100000000000000010000000000000000000000000000000000",
    "201026233100000000000001000000000000000000000100000000000000000010000000001201026234100000000000010000000000000000000000000000000000000200000000000001201026235100000000000000000000000000210000000000000001000000010000000010000201026236100000000000100000000000200000000000000100000000000000000000001001201026237100000000000010000000000000000000000000000000000000000000010000100201026238100000000000000100100000000000000000000000001001000000000000000000201026239100000000000010010000000000000001000000000100000000000000000010000201026240100001001001000000010000000000000001000000000000000000010000000000201026241100000000000000000000000000001000000000010000000000000000000000000201026242101000000000000000000000010000000000010000000000000100010000000020201026243100000000000000001010000000000000000000000000000000001010000000002201026244100000100000000000000000000000000000000000010000000000000000000000201026245100000000000000000100000000000020000000000000000000011000000000000201026246100000000000000000000000000020000000000000000000000000010001000000201026247100000000000000000010000000000001000000000100100000000000000000000201026248100000000001100000001000000000010000000000000000000000000010000010201026249100000000000010000101000000000000000000000001101000100001000000000201026250100000000000000000000000000000000000001000001000000000001000000000201026251100000100000000001000000000000000000000000000000100000010000000000201026252100000000000010000000000000100000000000000000110000100000100000000",
    "201026253100010000000001000000000000000000010010100000000000000001000000000201026254100000200000000000000010000000000000000000100010000000000000000000201026255100000100000000000010000000000000000000000000000000000010000100000201026256100000000000000000000000000000000000000000010000000000000000200000201026257100000000000000100000000000000000000000010000000000001000000000000201026258100000000000000000000000000000000000000000000000000000000000000010201026259100000100000000000000000100011000000000000000000000000010000000010201026260100000000100000000000000000100000000000000000000000000000000101000201026261100000000000001000000000000000000000000000000000000000000000000000201026262100000010000000001000000100010000000010000000000000000000000000000201026263100000000000001010000000000000000000010000000100000000000000110000201026264100000000000000020020000000000000000000000010001000000000000000000201026265100100000000000000000000000000000000000000000000000000000000000000201026266100000000001000000001000100100000000000101000000000000100000000000201026267110000000000000000110000000000100000000000000001000000000000000000201026268100000000000100000000000000000000000000000100100000010000000000000201026269100000000010000000100000000001000000000000000000000010000000000000201026270100000100000000000000000000000000002000000001000000000001000000000201026271100000000000000000001000000000000000000000000100000000000000000100201026272100001000000100000000000000010000000000000000000000000000000000000",
    "201026273100000000000001010000000000000000000000000000100000000000000001101201026274100000000000000100100000001000000000010000000000000001000000010000201026275100000100000000000000100100000000000000000010000001000000000000000201026276100000000001000000000000000000100000000000000000000000010000010001201026277100000000000000000000010000000000000000000000000100000000000000000201026278100000000000000000000000000000201000100000000001000000000000000100201026279100000000100000000000000000000000000000000000000000000100000000000201026280100000000000201000000000000000000000000000000000000100001000001000201026281100000000000001000000010000000000000000000100000000000000000000000201026282100000000000000000000000000000000000000000000000000000000000000000201026283100010000000000100000000000000001000020100000000000000000000000000201026284100100000000000010000000000000000000000000000000100000000000000001201026285101010000000000000000000100001000000000001000010100000010000010000201026286100000000010001000000000000000000000100000000000000010000001000000201026287100000000000000000000000000000000100000000000000010000000100001001201026288100000000000000000101000000000000000000000010000000000000000000010201026289100000000000000000000000000010000000000000000000000001000010000000201026290100000000000000000000000000000000000000000000100000000000000000000201026291100000000000000000200000000000000000000000000100000000000000000000201026292100000000000100000100000000000100100010000000000000000010000000000",
    "201026293100000100000000000000000000000000000000000100000000000000000001000201026294100000000000000000000000000100000010000000000000000000001100000000201026295100000000000000000000000000000000001000100000000000200000001000012201026296100010001000000000000000000000000000000000010000000000000000000000201026297101100100000000101000000000000000001000000001000000000000000000000201026298111000000000000000000000000000000000000000011000000000000000000000201026299100100010000010120000000100000010000000100000000000000000000100000201026300100000010000010010000101000000001100000001000001000000100000000000201026301100000000000000000000000000000000100000000000000000000000000000000201026302100000100000000000000000000000000000100000000000011000000000000000201026303100100010011000000001010100000000101000000000000000011010010000000201026304100000000000000000000000100000000000010000000001000000000000010000201026305110000000000000000100000000000000000000000000000000010000000000000201026306100000000000000000000000100010000000010000000000000000001001000000201026307100000000000010000000000000000000001000000000000000000000000000000201026308100000000000000000000100000010000000000010000000000000000000000100201026309100000000010000001000100000110000000000000000000000000001000000000201026310100000000000000000000000000100000000000100000000000000000000000000201026311100000000000000000100000000000000000000010000000000000000000000000201026312100000000000000010000000000000000000000000000100002000000000000000",
    "201026313100000000000000000100000000001000010000000000000100000000000000000201026314100000100000000100000000000000001100000000000000020000000100000000201026315100000000000000000000000000000000000000000000000100000000000000000201026316100000001000000000010001000000001000010000000010000000000000000010201026317100000001000000000000000000000000000000000000000000000000000001000201026318100000000000000000000000001001020000000000000000000000000100100000201026319100000000000000000000000000000000000000000000000000000000000000000201026320101000000000000000000000001000000000000000000001000000000000102000201026321100000000000000000000000000000100000000000000001000000000000001000201026322101100110000000000000000000000000000000000000000000000000000000000201026323100000000000010000100000000000000000000010000000000100000000000001201026324100000001000000000010001001000010000000000010001000000000000000000201026325100000001110001000001000000000000010001000000000000000000000000000201026326110010000000000001000000100000000000000000100000000000000000000000201026327100000010000000000000000000000000000000000200000000000000000000001201026328100000000010000000000000020000000000000001000000000000000000000010201026329100000020000000000000000000100020100010001000000000000010000000000201026330100000100000000000000001000000000000001000000000000000001000000000201026331101000000100000000000000000000000000000000000000000100000000000110201026332100000000000000001000000000000000100000010000000000000000000000000",
    "201026333100000000000000000000000000010000100000000000000000000201000000000201026334100001000000000000000000000000000000000000000000001000000000000000201026335100000000000000000000000000000000000000000000000000000010000000000201026336100000000000010000000100000000000000000000010000000000000000000000201026337100000000000000001000000000000000000010000000000000000100000000000201026338100000000000000000000000000001000000000000100000100010010000100000201026339100010000000000000000000100000000000000000001000000000002000000000201026340100000000000100000000000000000001000000000000000000000000000000100201026341100000000110000000000000000000000000000000000000000000101000000001201026342101000002000010000000000000000000000000000000000000000000000000000201026343100020000000000000000000000000010000000010010000000000000000000000201026344100000000000000010001000000000000000000000000000010100100000000000201026345100010010000000000000000000000000000000100000001010000000000000000201026346100000000000010000000000000000001000000000000010000000000000000000201026347100100000000000000000000000000000000010000000100100000000000000000201026348100000000000000110000000000000100000000000001001010000000000000000201026349100010000000000000000000000000000000000000000000000000000000000000201026350100000000000000000000101000000001001100000000010000000000010000000201026351100010000000000000000000000000000000010000000000000000000000000000201026352100000000000000120000000000100000000001010000000000000000000000000",
    "201026353100200000000000000010000000000000000000000000000000000000000000000201026354100000000000000000000000000001010001000000000000000000100000000000201026355100000000001010000000000000001100000100000100000001000000000010000201026356110000000000001000000000000000000000000000000000000000000000000000201026357100000000001000000000000000000000000110000000000001000000000000000201026358100000000010100000000000100000000000000000000000000001000000100000201026359100000000000000000010010001000001000000000000000000000000000000000201026360100000000000000000000000000000000010000000000001000000000000001100201026361100000000100000000000000000000000000000000000100000000000000000001201026362100000000000000000000000000000000000100000000000000010000000000000201026363100000000000000100000001000000000000000000000000000000000000000000201026364100000000000000000000000000000000000001000200000000000000000000000201026365100000000000000001001100000010000000000000000000000000000000000000201026366100001000000000010000000001000000000000000000000000000000100000000201026367100000010000000000000000000000000000000001100000000020000001000000201026368100000000000000000000000000000000000000000000000102000000000000100201026369100000000000000000000000000000000000000000000000000000000000000000201026370100100010000000000000000100000000000000000001100001000000000100000201026371100000000000000000000000001000001100000000000001000000300000000020201026372100002000000001000000000000000000100000000000000000000000000000000",
    "201026373100101000100001000000000001000001000000100000000000000000000010000201026374100000000000000000000000000000000000000000000001010010002010000011201026375100000000000000000000000000000000001000000000000001000000000010000201026376110000000001010000000000000000000000000000000000100000000000000000201026377100010000000100000000000000000000010000000001000000000000000000000201026378101100000000000000000100000000000000000010000000000010000000000000201026379100000000000000000000000000000000000000000000000000000000000000000201026380100010000001000000000000000000010010000000000000010000000100000000201026381101000000000000000000000000001001000000000000000100100000000000000201026382110000000000000100100000000000000000000000000101000000000200000000201026383100010000000000000000000000002000000010010000000000000000000000000201026384111010000000000000000000010110000000000000000000000000100000000000201026385100000000000000000000000000000000000000000000100000000000000000000201026386100000010100000000000001020000000000000001000000010000000000000000201026387100000001000000000000100000000000001000000000000000000000010101000201026388100000000000000000000000000000000000000000000000010000000100000000201026389100000000000011000000000000000100000000000000000000000000000021000201026390110000000001001000000000010000000000000100000000010000000002000000201026391100000001000000000000001000000000000000001000000000000000000000001201026392100002000000000000000000000000100000100000010000000000000001010000",
    "201026393100000000010000000000000000000000100000000000000000000000000001000201026394100000000000000000000000010100001000000100010100000000000000000000201026395100000000000000000000000000000000000000000000000000000000000100000201026396100000000001000000000000000000000100001100000000000000001000010000201026397100000000000000000000000000101100000000001100000000100000000000000201026398100000000000000000000000000000000000000000000000000000000000000000201026399100000000000000000000000000000000000000001000011000000001001100000201026400100000000000000000000000001000000000000010000000000000000000000010201026401100000000000000000000000001000000000000000000000000000000100000000201026402100000101000001010000000000000000000000000000000000001000000200000201026403100000000101000000000000010000010100000000100000000000010000000000201026404100000000000100000000000000020100000000000000000000000000000000000201026405100000000000000000000000000010000000000000200000000000000000000001201026406100000000000000000000000000000000000001000000000000000001000000000201026407100002000000000000000001000000001000110000000000000000000000000000201026408100000000000000000100000001000000000000010000001000100000000000000201026409100000001100001000000000000000000001000000100000000000000000001000201026410100000100000000000000000000000000000000000000000010000000000001000201026411100000000000010300000000000000000010000000010000000000100000000000201026412100000000001010000000000000020000000000000000000000100000000000000",
    "201026413100000000000000000000000000000000000000000010000000001000000000000201026414100000000100000000000000000000000000000000000000000100000000000000201026415101000000000100000100000100000000000000000000000010000000101100000201026416100000010000000000000000000001000000000000000100000000000000000000201026417100000000000000000000000000000000000000000000000000000000000000000201026418111000000000000000100110000000100000000000000000000020000000100000201026419101000020000000010000000000000001000000000000000000000010000010000201026420100000000000000000000000000000000000000101000000001000000000000000201026421100000100000000000000000000000000000000000000000000000000000000000201026422100000000000000000000000000000001000000000000000000000000000000000201026423101010000001000110000000000000000020000000000000000000000010010000201026424100010000000000000000000000000000010000000001000000000000001000000201026425101000000001000000000000000000000000000000000000001000000000000000201026426100000000000000000000000000000000010000000120000000000000000000000201026427100100000000000000100000000001000000010000000000000000000000000000201026428100011000000000000000000010000000010000010000000000000000000000000201026429100000000000000000100000000000001000000010000000100000000000000000201026430100000000000000000000000000000000000000000000000000000000000000000201026431100010000000001000000000000100000000000000000001000000010000000100201026432100000012000000000000000000000100010100000000000000001000000000000",
    "201026433100000010100000000000000000000000000000000000000001000000000000000201026434100000000000000100000000000000000000000001000001000000000000000000201026435110000000000000000000000000000000000000000000000000000000000000000201026436100000000000000000000010000000000000000000101000000000000000010000201026437100000000010000000001200000000000000000010000001000000000000000000201026438100000000000000000002010000000000000000000100000000000000000000000201026439100000000001000000000001001000000000000001000000000000000000000000201026440100000000000000000000000000000000000000000000000000010000010000000201026441100000000001000000000000000000001000000000010000000000000000100000201026442100000000100000000000100000000000001000101000010000000000010000000201026443100000000000000000000100000000000000000000000000000000000000000000201026444100000000010000000001000000000000000000010000000000000000010000000201026445100000000000000000000001000000010000000000000000000000000000100000201026446100100000100000000000000000010000000000000000000001000000000000000201026447100000000000000000000000000000000000000000000100010000000000000000201026448100000000000002000000000000000000200000000000010100000000000000000201026449100000000000000000000000000000010010000010100000000000000000000000201026450100000000000001000100000000100000000010000000000000000000000000000201026451100000000000000000000000000000100100000000000000000000000000000000201026452100000000000000100000000100000100001000000001000000000010000000000",
    "201026453100000000010000000001000000000000000000000000100000000000000000000201026454100000000000001000000000100000000002001000000000000100000000000000201026455100000100000000000000000000000000001000000000000000000000000000000201026456102001001000000000000100000000000000010000000000100000000000000000201026457100010100000001000101000000000000100110001000000000010000000000000201026458100000000000000000001000000000000000000000000100000000010000100000201026459100000000200001000000000000000100000000000020000000000000000000000201026460100000000000010002101000000001010000000000100000000000000000000000201026461100000010000000000000000000000000000000100000000000000001100000100201026462100000000000000000000000000000010000000000000000000000000000000100201026463100000000000000000000000000000000000000000100000000000000000010000201026464100000000000100000000001100000000000000000000000000000000000000000201026465100100000000000000000000100000000000000000000000001000000001000000201026466100000000000000000000000000001010000000000000000000000000000000000201026467100000000000011100000000000000000000110000000000000000000000000000201026468100000000000000100000001000000000000000000000000100000000000100001201026469100000000000000000000000001000000000000000000000000000000000000000201026470100000002000100000000000000000000000000000000000000000000000000000201026471100000000000000000000010000000000000000000000000100000000000102000201026472100000001100000002000000000110000000000000000000000001000000000000",
    "201026473100000000000001000000010100000000000000000000000000000000000000000201026474110000000000000000000000000000000000000011000000000000000000010000201026475100010000000000000000000000010001001000000000000100000000000000000201026476100000000000000000000000000000000000001000000000000000000001000000201026477100000000000000000010000000000000110000000000000001000000000000000201026478100000000100000000000000001000000000000000000000000000000100000000201026479100010000000000000100000000000000000000000000000000000000000000001201026480100000000000000000001000000000000001000100000000000000000000000000201026481100000000000000000000000000000000000000000000000000100001000000010201026482100001000000000000000010000000000010000000000000000100000000001000201026483100000001000000000100000000000000000001000000000000000000000100000201026484100000000000000000000000000001000000000000000000001010000100000000201026485100000001000100000000000000000000000100100000000100000000000000010201026486100000000000000000000000000000000000000000000000000000000000000010201026487100000000000010001000000000000000000000000000000000000000000000000201026488100000100100000000000000020000010000000000000000000000000000000000201026489100000000000000000000000000000000000000000000000000000000100000000201026490101000000210000100000100000000000000001010000000000000000000000000201026491100000000000101000000000000000000001000101000000000000000000000000201026492100000010000010010000000000000000000000010000000000000100000000000",
    "201026493110100000000000000000000000000000000000000000000000000000000000000201026494101000000000000000100000000000000000000000000000000000000000020100201026495100000000000000000010100000000001001000001000100000000010000000000201026496100000020000000000000000000000000000010001001000000000000001000000201026497100001000000000000000000000000000000000010000000000000000000000000201026498100000000000001010000010001000000000000000000000000000000000000000201026499100000000100000000000000000000000010000000000000100000000000100000201026500100000000000010000000000000000010000000000000000000000000000000000201026501100000000110000000000000001000000000000010000101010000010000200010201026502100000000000000000000000000000001010000000000000000000000000000000201026503100000000000000010000010000000000010000000000000020000000000000000201026504100000002100000000000000000000000000100000000000010000000000001000201026505100000001001000010000000000001000000100000000001000100000000000100201026506100000001000100000000000000000000000000000000000011000000000000000201026507100100100000000000000000000000000000000000000000000000100000000000201026508100100000000000000000000000010000100000010020100000000000000100000201026509100000000000000000000000000000000000000000001000000000000000000002201026510100000000000000000000000000000000001000001000000000000000000000000201026511100000000001001000000000000000010000000000000000000000001000000000201026512100000000000000000000000000000000000000000100000000000000000000000",
    "201026513100000000010000100100000000010000000000000000001100000000000000000201026514100000000000000000000000000000000010000000001000010000011000000000201026515100000000010000000000000000000000000000000000000000100000010001000201026516101000011000100000000000000010000000000000110000000010000000000000201026517100000000000100000000000000000000100000000000010000100000000000001201026518100000100101000000000000000000000001000000000000000000000000000000201026519100000000020010000000001100000000000000000000000000000000000000000201026520100000000000000000000001000100000020000000000000000010000000000000201026523110001010000000000000000000001000000100000000000000000000000001000201026524100000000000010000000000000000000000000000000000000000000010000010201026525101000000000000000000001000000000000000000000000000000000000100100201026526100010000000000000000100000100000000000000000000000000000000000000201026527100000000001100010000010000000000000000000000001000000000000000000201026528110000001001000000000000000100011000000000000000000000000000000000201026529110000000000001000000000000000000001100000000000000000000000001010201026530100000000000000000100000010000000000000000000000000000000000001010201026531100000000000000000010100000000000000000000000001000000000000000000201026532100000010000000000000000000000000000000000100000000000000000000000201026533100000000000000000000000000000010000000000000001000200000000010000201026534100000000000000000000000010001000000000000000000000000000000000001",
    "201026535100100000000000000010000000000000001000000000000000000000000000100201026536100000000000000000010000100000000000000000000000000000000000000000201026539100000000001000000000000100000000000000000000000000001000000000000201026540100000000010010000110000000000000000000020000010000000100000000000201026541100010000000000000010000001000000000000000000000000000000000000000201026542102000000001000000000000000000020000000000000000000000000000010000201026543100000000000000000100000000000100000000000001000001000000000000000201026544100000000000000000000000000000000000011000000000000000100000000000201026545100000000020010001000000000000000000000000000000000000001000000001201026546100000100000001100000000000000000010000000000000000000000000000000201026547100000000000000000000000001000000000000000000000000000000010000000201026548100000000000000000000000000001000000000000010010100001000000000000201026549100101000000000000000000000000000000000000001000000000000000100000201026550100000100000000000100000001000000000000000000000000001000200000000201026551100121000000000000000010000000010000000000001000000000000000001000201026552100000000000000000000010000000000000000000000000001000020100100000201026553100000000001000000000000000000001000000011200000000000000000000000201026554100000000000000001000001000000000000000000000000000000000000000000201026555100010000000000000000000100000000000000000000000000001000000000010201026556100000000000000000000000000000000000010000000000000000000000000000",
    "201026557100000000010000000000000000000000000000000000000100010000000000000201026558100010000100000001000001000000000000000000000000000000000100000000201026559100000000100000000000000100000000000000000100000000000000000000000201026560100000000000100000000000200000000000000002000000000000000010000000201026561100000000000000000000000000000000000000100000000000000000000000000201026562100000000010000100000000000000000000100000000000000000000000000000201026034100000000000001000000001000100100000100000000000000000000000000000201064008100000000100000000000000000010000000000000001000000000000000000000201064009100000000000000000100000000000000100000100100000000000000000000000201064010100000000000000000000000000000000000000001000000000000000000000010201064011110000000001000000000000000000000001000000000210010001000000100000201064012100000000001000000000000000000001000001010000000100000000000100000201064013100000000000000100000000000000000001000100000000010000000010000000201064014100000000000000000200000010000000101000000000000000100000000000101201064015100000000000010000000000000100001000000000000001000000000010000000201064016100000000000000000000000001001000000001000000000000000000000100001201064017100010000000000000100000000000010000001000000000000000000000010000201064018100000000000000000000001000000001000000020000000000000300011000000201064019100000010000000000000000000000000000000100000000000000100000000100201064021100000000000001000000001000000000010010000000000000001000000000000",
    "201064022110000000100000000000000000000000000000000000000000000000000000100201064023100000000000021000000000010000000100000000000000000000000000000000201064024110010000000000000100000000000000000000000000000000000000000000000201064025100000000010000001000000000000000001000000000000000000010000000010201064027100100000001000000000000000100000000000000000000000000000010000000201064028101000000000200000000000000000000000010000000000000010000000000001201064080100000000000001000001000000000000000000000010000000000000000000000201064029100000000000000000000000010000000010000000000000000000000001000001201064030100001000000000000000000000000000000100000000000000100000000000000201064031100000000000000000000000000010000000000000000000011000000000000100201064032100100000000000000100000010000000000000000000000000000000001000000201064033100000000001000000000000000100000000000000000100000100000000000001201064035101030001000000000000100000000010000000000000000100000000000000000201064036100000000000000000000000000000000000000000010001100010100000000000201064039100100000000000000001000000000000000000110000000000000000000000000201064040100000000000000000000000100000000000000000000000000000000000001000201064041100000000000100010000000000000000000000000000000000000000100000000201064042100000000200000000000000000000000000000000000000000000000000011000201064043100000000001000000000000000000000000001000100000000000000000000010201064044100010000000000000000000100000000000010000100000000000000000000000",
    "201064046100000000100000000100000000000000100000000100000000000000000000000201064049100000000000000000000000000000000010000010000000000000000000000001201064053100000000000000000010000000001000000000000100000000000000000000001201064054100100000000000020010010000000000000000000000010000000000000000000201064058110001000001000000000100000000100000001000000000010000000000000000201064060100000000000000000100000000000100000100000000010000000000000000001201064061100001010000000000000000000000000000000000000000000000000000000100201064081100000000000000000000000000000000000000000000000000000000000000000201064082100000000000000000000000000000000000001000000000000001000000000000201064083100000000000000000001000000000000000000000000000000000100000000001201064084100000000000100100000000000000000100100000100000000001000000000000201064085100001100000000001000000000000000000001000000000000000000000000000201064086100000000001000000000000000000000000100000100000000000000000100000201064087100000000000000000000000001000101000001000010000000000000000000010201064088100000000000000010000010000000100000000010100011000000200000000000201064089100000000000000000000010000000000000000000000001000000000000000000201064090100000000000000000000000000000000000000000000000001000010000010000201064091100000000000000000000000000000000000100000000000000000000000001001201064092100000000000000000000000001000000000000000000000000101000010000000201064093100000000000000000000000000000000000000000001000000000000000000100",
    "201064094100000000000000000010000000000000000000000100000000000000000000000201064095100000000000000000000001000000010000001000000000000000000000000000201064096100000000000000100000000000000000000000000000001000000000110000010201064097100000000000000000000000000010000000100000000000100000000000000000201064098100010000100000100000000000000000000000000100000000000000000110000201064099100000000000000000000000000000000000000000100010000000000000000000201064100100000000000000000000000000000000000000000000000000000000000000000201064101100000000000000000000000010000000000000000000000100000000001000000201064102100000000000001000001000000000000000000000010000000200010000100000201064103100000000000000000000000000000000000000000000000000000012000000000201064104100000000000000000000001000010000000000010000000001000000100000000201064105110010010000000000000000000010000000000010110000000000000000000000201064106100000100000000000000000000000000000010010000000010000000000010000201064107100000001000001010000000000000000000000000000000000000000000100000201064108100000000010000000000110000100000000100020000000000000010000000000201064109100000100000000000001000000100000000000000000000000000000001001000201064110100000100000000000000000000000000000000000000000001000100000000000201064111100000000000000000000000000000000000000000000000010000000000001010201064112100100000000001000000000010000000000010010100000000000000100000000201064113100000000000000010000000000000000000000000000010000000000100000000",
    "201064114100001000000000000000000100000000001000000000000000000000001000000201064115100000000000000000000010000000000000000000000000001100000000100000201064116100000000000000000000000000000000000000100000000100010000000001000201064117100000000000100000000000000000000010000000000000000000000000000200201064118100000000010100000000000000000000000000000000000000101001000000000201064119100000000010000000000001100000001000000000000000000000000000000000201064120100000010000000000000000000001001000010000000000010000000000000000201064121100010000000010000000000000000000000010000000000000000110000000000201064122100000000000000000000000000000000000000000000000000100000000000000201064123100000001000010000000000000000000011000000001000000000100000000000201064124100000000010000000000001000000000000010000000000100000001000000000201064125100000000300010000010000000100000000000010000000000010000000000000201064126101000000000000000000100000000000100100000000100000000000000001000201064127101000200010000000000000000001000000000000010000000000000000000010201064128100000000000000000000000000000000001000010000000000000000000000000201064129100000001000000000000000000000000000000000000000010000000000000000201064130100000000000000000000000001000000000000000000000000000000000000000201064131100100000000000000000000000100000001000000010000000000000000000000201064132100000000001000000000000000010000000000000000000000000000000000001201064133100000000000100000000000000000000000000110000100001000000001000000",
    "201064134100000000100000000000100000000010000000000100100000000010000000000201064135100000000000000100001000000000000000000010000010000000000000000000201064136101000000000000000000010000000010100001000000010000010000000000000201064137100000001000000000000000000000000000001000000000000000000100000000201064138100000000100000000000000000000000000000000000000000000000000000001201064139100110000000000100000000000000000000000000000000000000000000000010201064140100000000000000001000000000002000000000000000001000000000102000000201064141100000000000000000000000000000000000100000000000000000010000000000201064142100300000000010000000000000001000000000000000000000000000010000000201064143100000000000101000000000000000000010000000000000000000000000001000201064144100000000001000010000000000000000000000000000000000000000000000000201064145100000000010000000000000000000000000000000000000000101000000000000201064146100000000000000000000000000000000000000000000000000000000000100000201064147100000000000000100000010000000000000000000001000100000001000000000201064148100000000100000100000000000010000000000000000000000000000000000001201064149100000000000100000100000000000000001000000000000000000010100000000201064150100000000000000000000010000000000000000000000000000100000000000010201064151120000000100000200000000000000000000000000000010000000000000010000201064152100000000000000000000000000100000000000000000000000000000000001000201064153101100000000000000000000000000000000000000000000000000000000000000",
    "201064154112000000000010000000000001000000000000000000000000000000000010000201064155100000001000000010001001000000000000000000000000000000001000000000201064156100000001000000101000000000001001000000000000000000000100001000000201064157100000000000000000000000000000000020100010000010000001000020000000201064158100000000000000000000000000010000000001000100000000010000000000010201064159100001001000100000000000000000000001000000000000000000000000000000201064160100001010000000000000000000000000000000000000000001000000000000001201064161100000000000000000000000000000100000000000000000000000000000000000201064162100000000000000000000000000000000000000000000000010010000000001000201064163100000000001100001010000000000000010001001000000010100000010000000201064164100000000000000000000000000000000000001001000000000000000000000000201064165100000000000000000000010000000000100000000000000000000000000000000201064166100001000000000100000000000011000000000000101000000000000000000000201064167100001000000000000000000000000000000000000000000000000000001101000201064168120000000000000000000010000000000000000000000000000001000000010010201064169100000000000000000000010000000001000100000000001101000100000000100201064170100000000000010000000000010000000000000000100000000000100000000000201064171100000000000000110010000000010000001000000000000000000000000000010201064172100000000000001000000000000000000000000000000000000000000100000100201064173100000000000000000000010000000000000000000000000000000010001000000",
    "201064174100000000000100000000000000000000000000000000000000000002000000000201064175100000000000000000000100000000000000000000020000000000000000000000201064176100000001000000000000000000000000000000000100000000000000000000000201064177100001000000000000000000000000000000000010000000000000000000010000201064178100000100000000001000000000110000000001000000000000000000000000000201064179100000000000000100010000000000000000000100000001000000000000000000201064180100000000100000000000010100000000001000000000000000000000000000000201064181100000000001000000000000000000000100000000000000000000000001000000201064182100000000000000010000000000000100000000000000000000010000000001000201064183100000000000000000000100000000010001000000000100000100001000000000201064184100000000100010000000000000000000000000100000100001000000000000000201064185100000000000100000000001001000000000000001000000000000000000001000201064186100000000000000000000000001000000000000001010000000000000001000000201064187100000000000000000100000100000000000000000000000000000000000100000201064188100000000000001010100200000000000000000000000000000010000000000000201064189101000000000000000000000000000001000000000000000000000000000020000201064190100000000000000010000100000000000000010010000000000000000010001000201064191100000000010000000000000000000011001000000000000000000000000001000201064192100000000000000010000100020000000000000000000000000000100000000000201064193100000000000100000000000100000000010000000000000001100000000000100",
    "201064194110010000100000000000000000000000101000000000000000010000000000001201064195100000000000000000000000000000000000000000000000001000100000000000201064196100000010000000000000100000000001000000000000000001000000000100000201064197100000000100000000000000000000000000010100000000000101000000000000201064198100100000000000000100000000000000000000000100000000002000000000000201064199110000000000100200000000000000100000000000000000000000000000000000201064200100000000000000000000000000000000000000000000000000000100000000000201064201100000000000000000010000000000000000000000000000010000000000000000201064202100001000000000000000000000000000000000000000000000000000000100000201064203100000000000000000000000000000000000000000000000200000000000100000201064204100000000000000000000000000100000011000000000001000000000000011100201064205100000000000000000000000000000000000000000000010000000000000000000201064206100000000000000000001000000000000000000000000000000010000000000000201064207100000000000200000000000000001000000000000000100000000100000001100201064208100000000000000000000000100000000000000000000000000001000000000010201064209100000000000000000000000000001000000000000000000100000000000000100201064210101000000000001010000000000000000000000000000000001000000001000000201064211100100000000010000110000000000010000001000000000000000000000000000201064212100000000001000000000000000000000000000000000000000000200000000000201064213100100001100001000000000001000000001000001000000002001000000000000",
    "201064214100000000000000010000001000000100001000000000100000000000000000000201064215100010100000001000000000000000000000000000000001000000001000000100201064216100000000000000000021000000100000000000000000000000000000000000000201064217100000000010000001001000000000000000000001000001010000010000000000201064218100100000000000000000000000000000000000000200000000001000000000000201064219100000010000000000000000000000100000000000000000001000000000000100201064220100100000000000000000000000000000000000000000100000000000000000000201064221110000000100001000001010000000000000100000000000000000000000100000201064222100000010110000000000000000000000100000000000000000000000000000000201064223100000000000000000000000000000000000000000000000000000000000000000201064224100000000000000000001000000000000100000100000000000000000000000000201064225100000001000010000000000001000000020000000010000000000000000000000201064226100010000101000000000000000100000000000001000000000000000000000000201064227100000000000000001000000000000000000000000000000000000000001000000201064228110000000000000000000010000000000100000000000000000010000000000000201064229102000000000010000100000000010000000000000000000000000000000000000201064230101000000000000000000000000010000000000000000000100100000110000000201064231100000000000000000000010000000000000010000000010001010020010000000201064232100000000001000001000000000000000000000000000100001000100000000000201064233100000000000010000000000000000000000000010001000000000000000000001",
    "201064234100000000000000100000000000000000000000000000000000000001000100000201064235100000000000000000000000000000000000000100000000010000000001000000201064236100100000000000000001000000000000000000100000000000000000000000000201064237100000000000000000000000000000001000000000000100000000000000000000201064238100000000000000000000000000000000000000000000000000000000000100000201064239100000001100000100000000001000100000100000000000000101000000000000201064240100000000010000110110000000000000000001000000000000000000100000000201064241100000000000000000000000010000010000000000000000000000000000000000201064242100000000000000010000000001001000000000000000000100100000000000000201064243100000000000000000000000000000000000000000000000000000000000000000201064244110000000010000000000000000000000000000000000000100000000000000000201064245100000110100000001000001000000000200100000000000001000000001110000201064246100000100000000000000000000000000000000000000000000000000000001000201064247100000000000000000000000300000000000100000000000000000010000000100201064248100000000000000000000000000000000000000000000000000010000000000000201064249100000000001000001000000000000000000000000000000000000000000110000201064250101000000000000000000000000000000000000000000000000000000000000000201064251101000000000000000001000000000000000000100000000000000000000001000201064252100000100000000000000000000000000000000100000000000001000000000000201064253100000000000000000000100000000010000000000000000010000000000000000",
    "201064254100000000000000000000000000100000000100000010000000000000000000000201064255100010000000000000000000000000000010000010000000000000000000000000201064256100100010000000000000000000000000000000010000000000000000100000000201064257100000000000000000000000000000000000000000001010100000000000010000201064258100000000000000002000000011000000000000000000000000000000010000000201064259100000000010000000000000000000000000100000000000000000000000000000201064260100000100000000000000001000000000000000000000000000000000000000000201064261100000100100001000000000000000000000010100000000000000000000100000201064262100000000000000000001000001100000000000000000000000000000000000000201064263100000000000001000000000000000000000100020000000000000000000000000201064264100000000000000000000000000000000000000000010000000001000100000000201064265100000000000000000000000000000000000000010000000001000000010010000201064266100000000000000002000000000000000000020000000000100000000000010100201064267100000000000000000000000010000000001000000001000000100000001000000201064268100000000000000000000010000000000010000000100000000000000000000011201064269100000000000000000000001010000000000000000000000000000000000000000201064270100010000000001000000000000000000000000000000000010000000000000000201064271100000000000000000000000000000000000000000010000000000000000000000201064272100000100000000000000000000000000001000010000000000000000000000000201064273100000000010000000000000000001000001000000000000000000000000000000",
    "201064274110000000000000000000000000000000000000000000000000000000000000000201064275100010000000010110000000000000000010000000000001000000100000000010201064276100001000000000000000000000000000000000000000000000000000000000000201064277100100000000001000000100001000000000100000000000000000000000000000201064278100000000000100000000000000000000000000000001000100001011000000000201064279100000000000000010000000000000000100000000000001000000000000000000201064280100000010000000000000000000000000000000010000000001000000000100000201064281100010001000000000000000000010000000000000000000000000000000000000201064282100000010000000100010100000000000000000000200000000000000000000000201064283100100000000000010000000000010000010000000000100000000000000000000201064284100000001000000100000000000000001001000000001000000000010000000000201064285100000010000100000000000000101000010011000000000000000100000011000201064286100000100000000000000000000000000000000000000001000011001000000000201064287100000000000000100000000000000000000000000000000000000010000000000201064288100000000200000000000000000000000000000000000000000000000000000100201064289100010000000000000000000000000000000000000010000000010000000000001201064290100000000000001000000000000000000000100000000100000000000000000100201064291100000000000000000100000000000000000000000000100000000000101000000201064292100010000000000000000100000010010000000000000000010000000100000000201064293100000000000000000000000000000000010000000000000000000010000000100",
    "201064294100000000000000000000000000000000010020000100010000000001000000000201064295100000000000000000010000000000000010000000010010000000011000000000201064296100000000000000001000000010000000000000000000000000000000000000000201064297100010000000000000000000000000000001000000000000000000000000000100201064298100100000010000000100000000000000001000000000000000000000000000001201064299100000000000000000000000000000100000001011000000010000000000000000201064300100000000000000000000000100000000000020000000100000000000000000000201064301100000010000000000000000000000000000000001000000000000000100000000201064302100000000000000000000000000000000000000000000010000000000000000000201064303100000000000100000000000000010000001000000000000010000000000000000201064304101000000000000000000000000000000000000000000000000000000000000000201064305100000000000000000001000000000000000000001100000000100000000000000201064306100000001010100000000000001000000000000000000000000000000000000001201064307100000010000000010000000011001000010000000000000000000000000000000201064308100000000010000000000000000000000000000000000000000000000100000000201064309100000000000000000000000000000000010000000000000000010000000000000201064310100000000000000000000011000000000000000000000000000000000000000020201064311100000000000000000000000000000000000100000000100000000000000101000201064312100000000000000001000010000000000000000000000000000001000000000000201064313100001000000011000000000001000000000000000000000000000000000100100",
    "201064314100000000000100000000000000000000000000000000000000000000000000000201064315110000000000100000000000000000000000000000000000000000000100000000201064316101001000000000100000000000000000000000000000000100000010000000000201064317101000010000000000000000001010000000000000000000000001000000000001201064318100000000000000000000000000000000000000010010000000100000000000000201064319101010000000001010100000000002000000000010000010000000000000000000201064320100000000000000000000000000000000000000000000000000000000000002000201064321100000010000000000000000000000100000000000000001000000000000000000201064322100000010000100000000000000000000002000000000000000000000000000001201064323100000000000000000001010001000000100000000000000000000000000100100201064324100000000000000000000000000000000000000001000100000000000000000000201064325100000000000000000000010000000000000000000001000000000000100000000201064326100000000101000000000000000000000000000000001010000000000000000000201064327100000000000000101000001010010000000000000000000000000100000000000201064328100000000000000101000000000000000000100000000000000000000000000011201064329100000000000000000100000000000000000000000000000000100000000000000201064330100000000000000000000201000000000000000000000010000000000000000000201064331100000000000000000000000000000001000000000000000000100001100001000201064332100000000000000101000000000000010000000000000100010000000000000000201064333100000001000000000000000000000000000100000000000000000000000000000",
    "201064334100000000000000000010000000000000000000000000000000000001000000000201064335100000000000000000000000000100000001000000000001000000010000000000201064336100000000000000000000000000000000000200000000000000000000000000000201064337100000000000000000000000000000000000000000000000000000000000001000201064338100001000000000000000000000000100000000000000000000000001000000000201064339100100000000000000000000000000010000000000000000000000000000100001201064340100000000000000000000000000000000000000000000001000000011001001000201064341100000000000000000000000010100000000000000000000000000000000000100201064342100000000000100100000000100000010000000000200000010000000001000000201064343100100000000000000000000000000000000000000000000000001000000000000201064344100000000000000000100000000000010000000000000000010010000000010000201064345100001000000000000011000000000000000000101000000000000000010000000201064346101000000000000000000000000000000000000000000000000101000000000000201064347100000000020000000000000000000000000000000000000000000000000000000201064348100000000000000000000000000000000001010000000000100000000000010000201064349100000000000000000000000000000000000001000000000100000011000000000201064350100001000000000000000000001000000000000000000000000000000000000010201064351100000000000000000000000000000000010010010000000000000000000000100201064352100000000000000000000000000000000110000000000000010000200000100000201064353100000000000100000000000001000000000000000000000010000100000000000",
    "201064354100010010000000010000000000100000000100000001000000000000000000000201064355100000000001001000110000000000000100000000000000000000100000000000201064356100000000000000001000000000000000000000001100000000000000000000000201064357100000000000000010000000000000000000000000000000000000000000000000201064358100000000020000000000000000000000000000000000000000000000000000100201064359110000000000000000000000011000100000000000000000000000000001000000201064360100000000000000020000000000000000000000000000000000000001001000000201064361100100001000000000000000000000000000000000000110000000001000000000201064362100000100010010000000000000000000000000000000000000100011000000000201064363100100000000000010000000000000000000000000000000000000001000000000201064364100000000000000000000000000010100000000010000000000000000000000000201064365110000000000000000000000000000000000100000000000000001000000000000201064366100000000000000000000000000000100000000010000000000000000000100010201064367110001000000001000000000001000000000000010001000000000000000000000201064368100100000000000100000000000000000000000100000000000000000010000000201064369100100000000000000010000010000000100000000100000000000000010010000201064370100000001000000000000100000000000000000000000000000000100000000000201064371100000000000000000100020000000000000000000002000000010000001000000201064372101000100000000010001000000000000000001000000000000000000000100000201064373100001100000000000001000000000000001000000000100000000000000000010",
    "201064374100000000000000000000000000000100000100000000000100000000000000000201064375100000000000000000010000100000100000000000000000000000000100010000201064376102010000000000000000000000000000000000000000000000000000001000000201064377100000000000000010000000000000100000010000110100000000000100000000201064378100000000001000000000010000000000000000000000010000000000000000000201064379100000000000000000000000000000000000000000000000000000000000000000201064380110000000000100000000000000000000000000000000000000000000000000100201064381100000000000000000000000000000100000100000000000000000100000000100201064382100000000000000001000000000000000000000000000000000000000000000001201064383110000000000000000010001100000000000200000000000000100000000000000201064384100000000000000000010020000010000010000000000000000000000000000000201064385100000001000000000001000000000000001000120100000000000000100000000201064386100000000000000000100000000000000000000010000011010010000000000000201064387100100000000000010000000000000000010000000000000000000000000000000201064388100000000001000000000000000000001000000000000010000000000000000000201064389100000000000000000010000000000000000000100000001000000000000001000201064390100000000002100000000000000000000000000000000000000010000000000000201064391100000000000000000000000000000000000000000000010000000000000000000201064392100000000000000000000000000000010000100000000000000000000000010100201064393100000001000000000101000000001000000100000000000000000000000000100",
    "201064394100000000000000000000100001000000001000000000000000000000010010010201064395100000000000000010001000000000000100002000000000000000000000000000201064396100000010011000000000000001000000000000000010000000000000000000000201064397100000000000000010000000000000000000000000100000100000010000000000201064398100000000100000000000000000000000000000000000000000000000000000000201064399100000000000000000000000000000100000100000100000010000000000000001201064400100000000000000000000000000000000000000000000000000000000100100000201064401100000000000000001000000001001000000000000000000000000000000000001201064402100000100000100000010010100000000000001000000000000000000000000001201064403100010000000200000000000000000000000000000000100000000000100000000201064404100000001000000011000000001001000010000000000000000000000000000000201064405100000000100000000000000000000000000000000000000001000000000000000201064406101000000000000000000000000000000000001000000000000000000000000000201064407121000000000010000000000000000010000010010000000000000010000000000201064408100000000000000000100000000000000000000000000000000000000000010010201064409100000000000000000000000000000000000000001000000000000010000000000201064410100000000000000010000000000000010000100000010000000000001000000000201064411102100010000000000000000000001000000000000000000000000000000000000201064412100000000000000000001000000001000000100000000000000000000010000000201064413100000000000000000000000000000010000000000000010000000000000000000",
    "201064414100000000000000020000000001000000000001000100000000000000000000000201064415100000000000000000000100010000000001000000000000000000000000001000201064416101110000000000000000000100000000000000000000000000100010000003000201064417100000000000002000000000000000000000000000000000000010000100000000201064418100000000000000000100001000000000000000000000000001000001000000001201064419100101000000000011010000000000000000000000000001000000010001000000201064420100000000000010000000000000000000000000000000000010000000000000000201064421100000000000000000000000000000000000000000000001000001001000000110201064422100000000000001000110010000000000000000000000000000000000000000000201064423100000000000000000000000001000000001000000000000100000000000000000201064424110000000100000001000000000000000000000000010000010000000000011000201064425100000000000000100000000000000010000000100000000000000000000000000201064426100000000000001000000000100000100000000000000020000000000000100001201064427100000100000010101000010000000001000000000000000000000001000001100201064428100000000000000000000010000000000000000100000000000110000000000000201064429100000000000000100001000000000000100000000000000000000000000000000201064430100000000000000000010000310010000001001010000001000100000000000000201064431100000000000000010000000000000000000000000000000000000000000000000201064432100001000000000000000000000010000000000000000000000000100000000000201064433100000001000000000100000001000000010000000000000000000001000000000",
    "201064434110000000000000000000000000010000000000000000010000000000000000000201064435101000000000000000000000000000000000000000100000000100000001100010201064436100001000000000000000000000000000000000000000000000100000000000002201064437100000000100000000001000000000000000000000000000000000000000000000201064438100000000000000000000000000001010001000000000000000000000001000000201064439100000000000000001100000000000000000000000000000000000000000001000201064440100000000000000000001000000000001000000000000100000000000010000000201064441100000000000000000000000000000000000001000000020000000100000001000201064442100000000000000000000000000000000000000000000000000000000000000110201064443100100000000000010000000000000000000000000000100000000000000000010201064444100000000000100000000001000000000000000000011000010000000000000001201064445110000000001000000000100000000001000000000000000000000000000000000201064446100000000000000100000010000001000000000100000000002000010100010000201064447100002000000000000000000000000000010000000000000000001000000100000201064448100001000100001000000000001100000000000000000100000000000000100000201064449100000001000001000000000000000000000000000000000000000000000000001201064450100001000000000000000000000000000000000000000100000000000000000000201064451100000010000000001000000000001000000000000000000000000000000100001201064452100000000000010000000000000010000000000000000100000000000000000000201064453100000000000000000000000000000000010000000000000000000000010000100",
    "201064454100000000000000010100000000000000000000000000100000000000000000000201064455100010100000010000000000000000020000000000000000000000000000000000201064456100001000000000000000000000000100000001000000000100000000000000000201064457100100000000000000000000000000000000010000000000000000000000000000201064458100000000000002120000000010000000000000000000000000000000200000001201064459100000000000010000000000000000000000000000000000000000000000000000201064460102000000000000001000000000000010000000000000100000000010000000000201064461100000001000000000000001000000000000000000010000000000000100000000201064462100000001000000001000000000010000000000000000000000000001000000000201064463101000000000000000000000000000000000000000000000000001001000000000201064464100000000000001000000000000000000000000000000100000000000000000100201064465100000001000000000000000000000001000000000000000100000000000000101201064466100100000000000000000000000000003000000020010000000000000000001000201064467100000000000000000000000000021000000000000000000000000000000000000201064468100000000000100002000000000000000000000000000000000000000010000000201064469100000000010000000000000000000000000000000000000000000000000000000201064470100000000010000000001000000000000010000100000000000000000000000000201064471100001000000000000000000001010000000000000101000000000000000000000201064472100001000000000000000000000000000000001000000000000000100000001001201064473100000101100000000000000000000000000000000000000001000000000100000",
    "201064474100000000000000001000000000000100000000000000000100000000000000000201064475100000000000000000000000100000000000000100000000000000000000000010201064476100000000000000000000000010000000000000000000000000000000020000000201064477100000000000000000000000100000000000000000000000000000000000000000201064478100000000000000000000000000000000000000000000000000000000000000000201064479100000010100100000000000000000000000000000000000000000000000000000201064480110000100001100000000000000000000001000000000000000000000001000000201064481110000000010000000000000000101000000000000000000000000000000000000201064482100000000000000010100000000100000100000000000000000010000010000000201064483100000000000000000000000000000010000000000000000000000000000000000201064484101000000000000000010100000000000000000000000000100000000010100000201064485100000000000100000000000000000000001000000000000000000000000000000201064486100010000000000000000000000000100000000000000100000000000000000000201064487100000000000000001010000010000000000000000000010000000000000001000201064488100000000000110010000000000000000000000001000000000000000000000000201064489100000001000000000001010010000000000000000000000000100000000000000201064490100000010100000000001000000000000000000000000000000000000000000000201064491100000000000000000001000000000000000000010000000000000010011000000201064492100000000010000000000000000000000000000000000000000000000001001001201064493100000000000000000000000010000000001000000000000000000000000000000",
    "201064494100100000100000000000000000010000000000000000000000000000000010001201064495102000000000000000000000000000000001001000001000010110100000000000201064496100001000000000000100000000000000010000000000000000000000000000011201064497100001000000000000000000000001001010000000000000000010000000000000201064498100000000000100000000001000000000000101000000000000000000000000000201064499100000000000000010000000010000000000000000000000000010000000000000201064500100000000000000000000000000010000000000000000000000000000000000000201064501100000000000000000000100000000000000000000100000000000000000001100201064502100000000000100000000000000000000000000000000000000100000000001000201064503100000000000000000000000000000000010000000000010000000000010000000201064504110000000000000000000000000000000000010000000000010000000000000000201064505101000000000000000000000000001100000000000000000000000000000010010201064506100100000020000000000000100001001000000001000000100000000000000000201064507110000000000000000100000010000010000000000000010100000000000000000201064508100000000000000000100000010100000000020000000100100000010000000002201064509100000000000000010000000000020000000000010000000000100000000000010201064510101000000000010010100010000000000000000000000000100000010000000100201064511100001000001000000001000000000000000000000000000000000020000000000201064512100000101000102000000001000110010001100000000000101000000000001000201064513100000000000100100000000000000010001000000000000000000000000000000",
    "201064514100000000010110000010000000010000000000100000010000000000100000000201064515101000000000000010010000000000000000000000000000000000001001000000201064516100000000000000100000000000000000000000000000000000000000000000000201064517100200001000001000010200000000000000000000000000000001000000000000201064518100000000000000110000000000000010000000101000100000000000000001000201064519100000000000000010000010000000000010000100000000000000000000000000201064520100000000000110000000000000000000000000000000000000000000000000000201064523100000000000000000000000000000000000000000000000000100000001000000201064524100001000001000000000011000000100010000000000000000000010100000000201064525100000000000000000000100000100000000000000000000000000000001000000201064526110000000000000000000000100000000000000000001000000000000000000000201064527100000000000000000100000000011000000001030000000000000000000100000201064528100000001000000010000010000000000000000000000000000000100000000100201064529100010000000000000000000000000000001000001000000000100000000000000201064530100001000000100000000000000000010000000000000100000000000000100000201064531100000000010000000000000000000000000000000000000000001000000000000201064532100000000000000000011001000000000000000000000100101000010000000011201064533100000000000000000000001000000100000000000000100100000100000000000201064534100000000001000000000001000000000000000010000000001000000100000000201064535100000000000000000000000000000000000000000000000000010000000000000",
    "201064536100000000000000000001000000000000000000100000000000000000000000000201064539100000010000000000000000000000000000000000000000001000000000000000201064540100000000000000000100000000000001000000000010100000000000000000000201064541100000000000000000000010000000000000000000000000100000100000000001201064542100000000000000010000000000000000000000001000000001000000000000000201064543100000000000000000000100000000000020000000000000000010010000000000201064544100000000000000000000000000000000001000000000000000000000000000000201064545100100200000000000000000101000000002000000000000200010000000000001201064546100000100000000010000000000000000000000000000000000000000000000000201064547100001000000000000100000000000000000000000001000000010000000100000201064548100000000000000020000000100000000000000000000000000200000000000000201064549100000000001000000000000010100000000000001000001000000000000000000201064550100000000000010000100000000000000000000000000000000000000000001000201064551100000100000100100000000000000000000000000000100000001000100000000201064552100000010001000001000001000001001100000000001000000010000000010000201064553100000000000000000000000000000000001000000000000000000000000100000201064554110000000000000000001000000000000000000000000010000000000001000100201064555100110000000000000000000000000000000000000000001000001000001000000201064556100000000000000000000000000000000000000000000000000000000010000000201064557100000000001000000001000000000000100000000000000001000000000000000",
    "201064558100000001001000000000000001000000000000000000110000000000000000000201064559100000000000000000000000020000000000000000000000100010001000000000201064560100000000000000100000000000000000000000010001000000000000000000000201064561100000000000000010000000000001000000000000100000101000000000000100201064562100000100000001100000000000000000001000010000000010100100000010010201038008100100000000000000000000000000000000100000000000000010010000000010201038009100000002000000000000000000000001000100000000000000000000010000000201038010100000010001000000000000000000000000000000000000000000000010000000201038011100000000000000010000000000000000000000100000000000001000000000001201038012100000000000000000000000000000000000000000000000000000000000000000201038013100001000000000000000000000000000000100000000000120000000000000000201038014100001000000000000000000000000000000000000000000000000000000000000201038015100000010000000000000000000000000000000000000000000000000000000000201038016100010010100100000000000000000000000000000000000000010000110000011201038017100000001000000000000000000000000001000000000000001000000000000000201038018100000000000000000000000000000000000000000000000000010000000100000201038019100100100010000000000000010000000000000000000000000000000000010100201038021100000001000000000000000000002000000000000000000000000000000000000201038022100000000000010000000000001000000000000000000000000000000000000000201038023100000000000000000000000100000000000000000001000000000000000010000",
    "201038024100000000010000000000010000000000000000000000001000000001000000000201038025100000000000000000000000000000000000000000000000000010000000000000201038027100000000000000000000000000000000100100000000000000000000010000000201038028100000000000000000001100000000100000000010000000010000000000000210201038080100000000010000100000000010000000000000000001000000000000000010000201038029100000000001000000000020001100000000000000000001000000000000010000201038030100011000000100000000100000000000000000000000000000000001000100100201038031100000000000000000000000000000000000000000000000000100000000000000201038032100000000000000000000000000001001000000000000010001000000000000000201038033101000000000000000000000000000000100000000100010000001000001000000201038035100000001100000000000000000000001000001000000001000001000000000000201038036100000000000000000000000000000000000100000100000000000000000000001201038039100000000000000000000000001000010002000000000000000000000000000000201038040100000000000000000000000000000100000000000000000000001000100000000201038041100000010000000000000001100000010000001000010000000000000000000000201038042100000000010000000000001000000000000000000000001001000000000100000201038043100000000100001000000000000000000000000000000000000000000000000010201038044100000000002000000000000000000000000000000000010000000010000100000201038046100000000100000000000100000000000000000000000000010000000100000000201038049100000000000000000000000000000001003100000001100000000000100000000",
    "201038053100000000000000000000000000010000000010000100000000001000000000000201038054101000000000000000000000000000000000000001100000100000000000000000201038058100000000000000000000000000000000000000000000000000000000000000000201038060100000000000000000000000000000000010000000000000000000011001000000201038061100000020000000000001000000000001000100010000010000000000000000000201038081100000000000000000000000000010000000000000000000001000000100000001201038082110000010000000000000010000100000000000000000002000000000000000000201038083101010200000000001000000010000000000000000000000000000000000000000201038084101000000000000100000000001000000000000000000000000100000000000100201038085100010010000000000000000000000110000000000000000000000000000001000201038086100000000000000000010000000000000000000000000010100000000000000010201038087100000000000000000000000000000000000000000000000000000010000000000201038088100000000000000000000000000000000010000000000000000010000000000000201038089100000100000000001000010000000000000000000000000000000000000000000201038090100000010100000000010000001000000000000100000010010000000000000100201038091100010100000000000000120000000100100000001100000000000000000000000201038092101000000000000010000000000000000000000000000000001000000000000000201038093100000100000100000000110000000001000000000000000300000000000100000201038094100000000000000000000000000000000100000000000020010000010000000000201038095100000000000000000000000100000000010000100001000000000000001000000",
    "201038096100001000000000000000010000000000000000000000020000000000000000000201038097100000000000000000000010000002000000000000000000010000000000000000201038098110000000000000000000000000000001000000000000000000000000000000000201038099100000000000000000000000100000000000000000000000000000000000000000201038100101000100010000000000000000000000000000000000000000000000002000000201038101100000010000000000000000000000000000000010100000000000000000000000201038102100000020000000000000000000000000000000000000000010000000000000001201038103100001000000000000000000000001100000012000000000000001000001000000201038104100000000000000000000000000001000000000001000000001010011000001000201038105100000000000000100000000000000000000110000000000000000100000000000201038106100000000000000000000000000000000000000000000000000000000000000000201038107100000000000000000000000000010000000000000000001000000000000000000201038108100000000000000000000000000000000000000000000000000000000000000000201038109100000002000000000000000000000000000000000000000000000010000000000201038110100000000000000000000000000000000000000000000000000000100000000000201038111100000001000101000000000000000000000100000000000001000000000000001201038112100000000000000000000010000000000000000000000000100000000000000000201038113100000001100000000000000010000000000010000000001000000000000000000201038114101000000000000000000000100000000000000000000000000000000000010000201038115100010000000000000001000000000000000000100000010001000100000010000",
    "201038116100000000000010000100000000000000000000000000000000000100000000000201038117100000000000000000000001000000001000000000001010000000001000000000201038118100000000000000000100000000000000020000000000010000000000011100000201038119100001000000010010000010100000000000000000000000020000000010000000201038120110000000000010000000100000000000000000000000000000010000000000000201038121100000000000010000000000000000000000000000100010000000000010000000201038122101000000000000001000000010000000000000100000000000000001000000000201038123100010000000000000000000000000000000000000000010000101000000000000201038124100000000100001000000001000000000000000000000000000000000000000100201038125100000001000000000011100000000100000000000001001000000000000100000201038126100000000100000000000000100010000000000000000000000000000000001000201038127100000000000000000000100000000000000000000000000000000000000010000201038128100000000000000010010000100000000000000000000001000000000000000000201038129100001000000001001000000000000010000000000000000000011000000000001201038130110100000000000000000001000100000000100000000000000000000000000000201038131100000000000000000000000000000000000000010000000100000000000000000201038132100000000000000001000000000001000000000011000100000000000000100000201038133100000001000000000000000000000010000000000000000000000100000000000201038134100000000000100000000000000000000000000000000000000000000000000100201038135101000000000000000000000000000000100001000000000010000000000000000",
    "201038136100000002101000000000000000000000000000000000000000000000000000000201038137101000010000000000010000000000010000000100000000000000100001000000201038138100000000100000100000000000000000000000000000000000000000000000000201038139100000000000000000000000000000000000000100000000000000000000000000201038140100000000100000000000000000000000000000000000000010000000000000000201038141100000011010000000000000000000011010000010100000000000000000000000201038142101000010000010000000000000000000000000010000000000000000001000000201038143100000001100000200000000000000000000000000000100000000000000100000201038144101001001000000000000001000000000000000000100001000000000000000100201038145100000000000000000000000000000000003000000000000000000000000000000201038146100000000000000010000000000000000000000000001000000000000000010000201038147100002000000000000000000000000000020100000000001000000000100000000201038148100000000000000000000000000000001001001000000000000000000000000000201038149100000010000000000100000000000001000000000000000000000000001010000201038150100000010000000000000001002000000000000000000000000000000000000101201038151101010000000000000000000000000000000000000000100000000000002000000201038152100000000000000000101000000000000010000000000000000000000000000000201038153100000000000000000000000000000000000010000010000000000000000000100201038154101000000000010000000000010000000000000000000000000000110000001000201038155100000000000000010000000000000000000000010000010000000000100000001",
    "201038156100000000000000000000000000000000000000000110000001000000000000110201038157100000000100000000110010001000000000010100000000000000000000000000201038158100000000000000210001000000010000000000000000000000000100000000000201038159100000000000000000000000000000000000010000000000001000000010000010201038160100000000000000000000000000001000000000000000010100000000002001000201038161100000000000000000100000000000000000000000000000000000000000000000201038162100000000000000000000000000000000000000000100000100000001000000000201038163101100001000000000000000000000000000000000000000000000000000000000201038164100000000200100000000100000001000000000000010000000000000000000000201038165100000010000000000000000000100000001000000000000010000000000000000201038166100010001000000000000000000000000000000000000010000000000000010000201038167100100000000000000000001000000100000010000010000000000000000000000201038168100000000000000000000000010100000000000000000000000000100000000000201038169100000000000000000000000000000000000000000000000000000020000000000201038170110001000000000000000000000000000000000000000000000000002000000000201038171100000000000100100100000010000010000000000000000000000000000000000201038172100000000000000001000000000000000000000000000000000000000000000000201038173100000100000100100000010000010000000000000000000000000000000000000201038174100000000000000001001000000000100001000001000000000001010000000000201038175100000000000000000000000000000101000000000200000000000000002000010",
    "201038176100000000000000000000000000000000001000000000000000100000000000000201038177100000000100000010000000010000000000200000000000000000100000000000201038178100000000000000000000000001000000000000000000000000000000000000000201038179110000000000000000000100000000000010000000001000000000000010100100201038180100000001000010000000000000000000000000000110000000000010000000000201038181100000000000000000010000000000000000000000000000010000000020000000201038182100001001000000000001000000000000010000110100000000010000000000000201038183100000000000000000000000000000000000000000000000000000000000000000201038184100000000000000000000000010000000000000000000000000001000000100000201038185100000000000000000000000000000000000000000001000000000000000000000201038186100002000000000000100010000000002000000001000000001000100000000000201038187100000000000000000100000000100100000000010010000000000000000000000201038188101000000000000000000000000000000000000000000010000000000000100000201038189100000000000000000100000000000000000000000000000100000000000000000201038190100010000000000001000000000000000000000000000000000000000000000001201038191100001000000100000000000000000000000000000000000000100000000000000201038192110001010000000000000000000000001100020000000000001000000101000000201038193100000000000000000000000000000000000000000000000000100000000001000201038194100011000000001000000000000000000000000000000000000010000000000001201038195100000000000000000000000000010000000000000000000000000001000000010",
    "201038196100000000000000000000000000000010000000000000000000100000000000000201038197110000000000000000000000000000000000000000000000000000002010000000201038198100000000000000000000010000000000000000000000000000000000000000000201038199100000001000000000000000000010000000000000000000000000000000000000201038200100000000000000000000000000000000000000000100000000000000000100000201038201101000000000000000000000000000100000000010001001000000010001000000201038202120000000000000000000000000000000100000001100000000001000000010000201038203100010000000000000000000000010000000000000000000000000001000000000201038204110000100000000000000000000000000000000000000000001010011000000000201038205101000000000000001100000100000000000101010000000000000100002000000201038206100000000000000000000000000001000000000000000000000000000000000100201038207100000000000000000000000000000000000000000000000001000000000000000201038208100002000000000000000000000000100100010000000000000000000000000010201038209100000001000100000000000000000000000000000110000000000000000010000201038210100000000000000000000000011100000000000000000000000000000000000000201038211100000000000000000000001000000000000010000001000000000100000000100201038212100000000000001000000000000000000000000000000000010000000000000000201038213100000000000000000000000000100000000000000000101000000000000001000201038214100000000000000000000000000000001000000000000000000100000001000000201038215100000000000000000000000000000000000000000000010000000000000000000",
    "201038216100000000000010000000000001100000100000000000000011001000100000000201038217100000000000000100000000000000000000000000000000000000000000000000201038218100000000000000000000010001000010000000000000000000001001000100000201038219111000000000010000000000000000000000000000000101000000000000000000201038220100010000000011000000000000000000000000010000001010110000000001000201038221101000000000000000000000000000000000000000000000000000000000000000201038222100010000000000000000000000100000000000000010001000000000000000000201038223100000000000000000000000000000000010000000010000200002000000000000201038224100000000000000100000100000100000000000000000000000000000001000100201038225100000000000000000000000000000000000000000000000000000000000000000201038226100000010000000000000000000100000000100000000000000000000000000000201038227100000000000000100000010000000000000001000000000000001000000000000201038228100000000000000000000000100000001000000000000000000000000000200000201038229100000000000000001000000000000000001000000000000200000000000000000201038230100000000000000000000000000000001000010000010000000000001000000000201038231110000000100000000000000000000100000100000000000010000000000000100201038232100000000000000000000000000000000000000000000010000000000000000000201038233100000000000000000000000000000000000000000000000000000000000000000201038234100000000000000100000000000000000000000000000000000000000000000000201038235100000000000000000000010010000000001000000000000000000000000000000",
    "201038236100000000000100000100000000000000000000000010000000000000001000000201038237100000000000000000000000000000000010000000000000000000000000000000201038238100000000000000000000000000000000100000100100000000001000000000000201038239100000000100110000000000000000000000000000000000000000000100000000201038240100000100000000000001000000000000000000000020000000000000000000000201038241100000000000000100000000000000000000000000000000000010000000000000201038242100000000000200000000000000000000000000001000000000000000000000000201038243100000000010100000001000200000000000000000000000000000000000000110201038244100000010000000000000000000000110000000000000000000000100000000000201038245100200000000000000000000000000000000000000000000000000000000100001201038246100000000000000000000000000000000000000000000000000010000000000000201038247101000000000000000000000000010000001000000000000000000000010000000201038248100000100000000001010000000000000000000000000000100000000000000010201038249100000000000000000000000000000000000000000000000000000000000000000201038250101000101000000000000000000000000001000000010000000000000000000000201038251100000000001000000000001001000000010000000000000000000000000100100201038252100000000100000000000000000000000000000000000000000100000100000000201038253100000000000000010000000000000000000000000100000000000000000000000201038254100001000000000000101000000000000000000100000000010000000000000000201038255100000000000010000000001000000000110000001000000000000000000000000",
    "201038256100010010000000000000010000000000000010000001000000000000000000000201038257100000000000000000000000000021010001000000000000000000000001000010201038258100000000000100000001000100010000000000000010000000000000010001000201038259101000000000001000000000000000000100000000000000000100000000000000201038260100000000010001000000000000100000000001000000000000000000000000100201038261100000010000000000010000000000000000000000100001000001001000000000201038262100100000000000000000001000000100000000100001000000010000000000000201038263110000000000000000000000010000000000000000000000000000000000000000201038264100000001000000000000000000000000010000000000001000000000000000000201038265100001000000000000000000001000010100000000000100000000000000000000201038266100000000010000000100000000000000000000000000000000000010000000000201038267101000010000000001000000010000001000000000000010001000000000000000201038268100000000000000000001000000000000200000000001000000000110000000000201038269100000000000000000000000000000000100000000000000000000000100001000201038270100000001100000000000000000000100000000000000000011100000000000000201038271100000000000000000000000000110000000000100000000000100000000000000201038272100001000000000000000000000000100000000000000000000000000000110010201038273110000000000000000000100010000001000000000000000000000000000000000201038274100000010000000000000000000000000000000000000000000000000011000000201038275100000100000000000000000010000000000001000000000000100000000000000",
    "201038276100000000000000000000010000000000000000000000000000000000010000010201038277100100000000000000000000000000000000000000000000000000000000000000201038278100000000000000000000001000000000000000000000000000000000000000000201038279100000000000000000000000110000110100000000000000000100000000000000201038280100000000001100000000000000000010000001000010000000000000010101000201038281100000010000000000000010000000000010100000001000000001000000000000201038282100000000000000000000000000000000000000100000000000000000000010000201038283100000000001000010000000000000000000000000100000000000000000000000201038284100000000000000000000000000000010000000200000100000000000000000000201038285100000000010020000000010000000000000000000000000000000000000000000201038286100000000000000000110000000000000110000100000000000000000000010000201038287100000000100001000000000000000010000000000010001000000110000000000201038288100002000000000002000000000000000000000000000100000000000010000000201038289101000000000010000001000000100000000000000001000000000000000010000201038290101000000000010000000000000100000000000001000000001000000000000000201038291100000000011000000100000000000000000000000000000000010000000000000201038292110000000000000000010000000000000000010000000001010000000002001000201038293100000000000000002000000010000000000010000000000000000000000000000201038294100000000000000000000000000000001000000001000000000000010100000000201038295100000000100000000000000100000000000000000000000000000000000000000",
    "201038296101000000000000000000000000010000000000000000010001000000000000001201038297101100000000100000000001000000000000002000020000000100000000000000201038298100010000000000000100000000000000001000000000000001000100010000000201038299100000001000000000001000100000000000000000000010000000000001000000201038300100000000000000000000001000000000000100000000000002001100000002000201038301100000100000000000000011101000000000000010000000000000000000000000201038302100000000000010000000000000000000000000001000000000000000000000000201038303100000000000000000000020000000010100000000000000000000000000000000201038304100000000000000000000000000000000001000000000000000000000000001001201038305100000000000000000000000000000000000010000000000000000000000000000201038306100000000000000001000000000000010000000000000000000000110010000000201038307100001000010000001000000010000000000000000010000000002000000000000201038308100010100000000000000000000000000002000000000000000000000000000000201038309100000000000000000000000000000010000000000000001000000010001000000201038310100000000000100000000001000100000000000000010000000000000000000000201038311110001000000000000000000000000000000000000001000000000000000000000201038312100001000000000000000000000000000000000000001010000011000000000000201038313100010000000001000000000000100000000001000000000000000000000000000201038314100000100000000000000000000000000000000000000000000000000001100000201038315100000000000000000010000000001000000000000000000000100100000100000",
    "201038316100000001000100000000000000000000000000000000000001000000000000000201038317100000000100000000010000000000010000000100000000000000000000000000201038318101200000000000000000010000000000001000000000000000001000000000000201038319100000000000000000000000000001000000000000000000000000000000000000201038320100010100000000000000000000000000100000000000000011000100001010000201038321100000000000100001000000000001000000000000100000000000000000000000201038322100000000000000000000000000000000000000000000000000000000000000000201038323100000000000000000000100000000000000000000100000000000000010000000201038324100000000000000000010000000100010000000000000000000000000000000000201038325100100000000000000000000000000000000000000000000000000000000000020201038326110000000100000000001000000000000000000000000000100000000000000000201038327101010000000000000000001000000000001000000000000000000000011000000201038328100000000001000000000001000000000000000000000000000000110000000000201038329100000000000000000000000000000000000000000000000000000000001000000201038330100000000000000000000000000000000000000000000000100200000000000000201038331100000000000000000000000000000001000010020000000000010001000010000201038332100000001000000010000000000000000001000000000001001000000000000000201038333100000000001000000000000000000000000000000000010000000001000001000201038334100000000002000000000000000020000000000000000010000000000000000000201038335100000000000000000000000000010001000000000000100000001000000000100",
    "201038336100010000000000000010000100000010000001000000100000000000000000000201038337100010110000000000000000001000000000000000002000000001000000010100201038338100000000000000000000000000000000001000000100001001000000000000000201038339100000000000001000001000000000000000000000000001000000000100100010201038340100000000100000000000100000000000000000000000000000000000000000000201038341110010000000000000000000000000000000101100000000010000000000000000201038342100000000000000000000000000010000000000000000010000010000000000000201038343101000000000000001000000000000000000000000000000000000100000000000201038344100000000000010000000000000000010000100000000000000000000000000000201038345100000000000000000010003100001000000000000000000000000000000000000201038346100000000000000010000000000100000010000000001000000001001000000000201038347100000000000001000000000000000000000000000000000000000000000100000201038348110000000000000000000000000000000000000000000000000000000000000000201038349100000000000000000000000000000000000000000000001000000010000000001201038350110000000100000000000000000000000000000000000000000100000000000000201038351100000000000010000010000010000000000000000000000000100000000000000201038352101000020000000000000000000000000000000000000000000000000000000000201038353110000100000000000100000000000000001000000001000000001000001000000201038354100000000000000000000000200001000100000000000000000000000000000000201038355110000000000000000000000000000000000001001000100000000100000000000",
    "201038356100000000000100000000000001000000000000001000000000000001000000000201038357100000000000200000000000000000000000000000000000000000100000000000201038358100000000000000100000020000000000000000000000001000100000000000010201038359101100101100000010000000000000000000000000010100000000000000000000201038360100000000000000100010000000000000011000000000000000000000000000000201038361100000001000100000000000000000000000000000000000011000000000000000201038362100000000000000000000100000000000100000000000000000000000000010000201038363100000001000000000000000010000000010200000100000000000000000000000201038364100000000000000011000000000000000000000100000000100000001000000000201038365100100000000000000000000000000000010000000000000000000000000000000201038366101000000000000000000001000000001000100000001000000000000000000100201038367100000000000000000000010000000000010000000000000000000000000000000201038368100000001000000100000100000000000000000000000000000010002000000100201038369101100000000000000010000000001000000000000000000000000000000100000201038370110010100000000000000000000000000000000000000000000000000000000010201038371100000000000000000000100100000000000000000000000000010000000000000201038372100000000001000000000000000000000001000000000000001000000000100000201038373100101000010000000000000000000100010000000000000000000000001000001201038374110010000000000000000000000001000000000000000000000000000000000000201038375100000000000000000100000000000000000000000000000000000000000000000",
    "201038376110000000001000010000000000001000000000000000000000000000000000000201038377100000000000000000000000000000000100000000000000000000000000000000201038378100000000010000000000000000000000000000000100000000000000000000100201038379100001000100001001000000000000000000001000000000010000000000100000201038380100000000000000000000001000000000000000000000000100001001000000000201038381110000000000000000100000000000000000000000000000000000000000000000201038382100000000000000000000110000000000000000000001000000000000000000100201038383100000000000000000100000000000000000000000000000001000010000000010201038384100000000010000000000000000000000000100000000000000000000001000100201038385100000000000000100000000000000000000000000000010000001100000000000201038386100000000100000000001000000000010001000000000000000000000000000001201038387100000000001000000000000000000000000000000000100000000000000000000201038388100000000000000000000000000010000000010000000000000000000010000001201038389100010000100100000000000010000000100000000010000000001000100000001201038390100010000000000000000000000100000000100110000000100000000100000000201038391111000000000100000000000000000000000000000000010000000000001000000201038392100000000000000000000100000000000001000000000000000000000000110010201038393100000000000000000000000000000000000000000000000100001000001000000201038394101000000000000000000000000000000000000000000000000000000100000000201038395100000000000000001000000010000000000000001000000001000000000000000",
    "201038396100000000000000000010000000100000000000000000000000000000100000000201038397100000000000000000000000000000000000000100000001000000000010100010201038398100000000000000000000000000001000000000000000000100110000100000000201038399100000000000000000010000000010000100000101000000000100000000000000201038400100000000000000110000110000000000000000000000000000000000000000000201038401100000000000000000000000000000000000000000000000000000000000000000201038402100000000100010000000000001000010000000000000000000000000100000000201038403100000000000000000000000000000000000000100000000000000000000000101201038404100110000000000000000000000000000000000000000000000000000000000000201038405100100000000100000000000000000000000000000000000000000000000000000201038406100000100000000000000000000000000000100000000000000000000000000000201038407100000000010010000000000000000000000000000100000000000000010000000201038408100000000000001100000000000000000000000000000000000000010010000100201038409100000000000000000010000000000000000010000001000001210000000001010201038410110000000000000000000000000000000000000000000010001000020000000000201038411100000000010000000000000000000000000000010000000000000001001000000201038412100000000000010000000000000010000000000000000000000000000000000000201038413100000000000010000000000000000000000000000000000000100000000010000201038414100000000000000000000000000000000000000000001100000001010000000200201038415100010000000000000000000000000100000000000000000000000000000000000",
    "201038416101001000000000000000100000001000000010001001100200000010000000000201038417100000000100000000000000000000000000001000000000000000000000000000201038418100000000000000000000000000000000010000000000000000000010000000000201038419100000000000010000010000000000000000000000000000000000100000000000201038420100001000000000000000001001000000000000000000000000001000000001000201038421101000100100000010000000000001000000000000000101000000000000100000201038422100001000100000000010000000000000000001000000000000101000001000000201038423100100000000000010000000000001000000000100010000000000000000001000201038424110000000000000000000000000000000000000000000000000000000000000000201038425100000000000000000000100000000000000000000000000000000000000000000201038426100000000100000000000000000000010001000000000000000000000100000000201038427100000000001000000000000100000000001000011000000000000000000000000201038428100010000000000000000000000000000000001000000000000000000000000000201038429100000000000010000001100000000000000000000001000000000000000000001201038430100000000100000000000000000000000000001000000000000000000000000000201038431110000000000000000000000000000000000000000001000000001000000000000201038432100001000000000001000020000101000100000000000000000000000000001001201038433110000000000000000000000000000000100000000010000000000000000010000201038434100000000000000100100000000000000000000001010000001000000000000000201038435101000010000000000010000000000000000010010000000000000000000000000",
    "201038436100000000000100000201300000000011000000000000000000000010000100000201038437100000000001102000000000000000000000000000001000000000000000000000201038438100000000000000000003000000010000000000000000010000000000000000000201038439100010001000000001001001000010000000000000000000000000000000000000201038440100000000001000000000000000000000000000000000000000000000001000000201038441100000000000000000000000000200000000000000000000000000000000000000201038442100000000000000000000100000000000000000000001100000000000000100000201038443110000000000000000000000000000100001000100000000000000000000000000201038444100000000000100001000000010001000000000000000000010000000000000010201038445100010000000000000000000000000000100000000000000000000000000000000201038446110000000001000001000000000000000000000000010000000000000000100000201038447110000010000000000000000000000000000000000001000000010000000000000201038448100001000000100000000000001000000000000000000000000000000100000000201038449100000000000001000100000001000000000000000000000000000010000000100201038450100000000000000001000000020000020000000001000010000000000000001010201038451100000000000000001000000000010000010000000001000000110000100010010201038452100000010100000000001000001100010000000000000000001000000000000000201038453100000000000000001000000000010000000000000000000000000000010000100201038454100000000000000000000000000000000000000000000010010000000000001100201038455100000000000000000100000000000000002000000000000001000010000000000",
    "201038456101000010000000010000000100000000000000010000000000000000000000001201038457110010000000100000000000000000000000010000000000000000000000010000201038458100000000000000000000000001000000101000000010001000000000010000000201038459100000000000000001000000000000000000000000000000001000000000000000201038460100000000000000000000000000000001100000000000000000000001000000000201038461100000000000000000000000000000010000000000000000100000000000000000201038462100000000010000000000010000000000000000000010100000000000000000000201038463100102000000000010000000000000000101100000002000010120000000100000201038464100010000000000001000000000010000000000100000000000000000000000000201038465110101000000000000000000000000000000000000000000000000000000100000201038466100100100000000000100000000000100000000000010001000000010000000000201038467100000100000000000000000000000000100000000000100000000000000000000201038468100000000000000001000000000000001000000000000000010000000000000000201038469100000000000000000000000000000011000000000000000000000000001000000201038470100000000000000000000000000000000000000000000010000000100000000000201038471100000000000000000000010000000000000000001000001000000000000000001201038472101000000000000000000000000100000000000000000000000010000000000000201038473100000000000000000000000000000100000000000000000000000010000000000201038474100000000000000010000000000000000001000000200001000000000100000000201038475100000000000000000001000000000000000000000000000000000000000011001",
    "201038476101010000000000000100000000000000000010000000000000000000002000000201038477110000001100000000000000000010100000000000010000000000000001000010201038478100010000000100000000020000000000000000000000000000020000000000000201038479100000000000001000000000000100000000000000000000000000000000000000201038480100000100000010000000000000000000000000000000000001000000000000000201038481100000000010101000000000000001000000000000000000000000000000000100201038482100000000000010000000000000000000000100010000010000100000000010300201038483100000000000000000000000000000000100000000001000000000000000000200201038484100010000000000001000000000000000000100010000000000011000000000000201038485100000000101000000000000010100000000000000000000000000000000000000201038486100000000100000000000000000010000000000000000010000000000000000000201038487100000000000000000000000000000000000000000000000000000000100000000201038488110000100000000000000000000000000000000000001000000100110000000000201038489100000101000000010000000000000001000000000010000001000100100000000201038490100000010000000001010000000000000000000000000000000010000000000000201038491100000000000000010000000000000000000010001000000000100000000000000201038492110000100100000000000000000100001010010000000000000001000000000000201038493100000000100010000010100000000000000000000000000000000000000000000201038494100000000100000000000000000000000000001000000000100000000000010000201038495100100000000000000100000000000000010000000000101000000000000000000",
    "201038496100100000000000000000000000000000000000000000000000000000000000010201038497100000000000000000000000000000000000000010000000000000000000000000201038498100000000000000011000100010000110001000000000000000000001000000000201038499100000000000000000000000000000000000000000000000201000000000200001201038500100000000000000000000000100000000000000000100000000000000000000000201038501110001000000100000000000000000000000000000000010000000000000000000201038502100000000000000100000000010000000000000000000000100000000001000000201038503100000000000100000000001000000000000001000000100010000000000010000201038504100000000000000010000000000000000000000000000100000000000000000000201038505100000000000010000100000000000000010000000000000000000000000000000201038506100010001000000000000000000000000000000000000100000000000000000000201038507100000000001000000000000000000000000001000000000000020000000110000201038508100010000000000100000000000010000000000000000000000000000000010000201038509100000000000000000000001000000000000000000000000000000000000000100201038510100100000000000000000100000000001000000000000000100000000000100001201038511100000000010000000000011002000000000000000000000000010000010000000201038512100000001000100000101100000110000000000000000100000000000000100000201038513100000000000000000100000010000000000001000000000000000000000000000201038514100000100000000000000000000000000020000100020000000000000000000000201038515100000010000000000011010000000000000000000000000000000000000000000",
    "201038516100000000000000000000100000000000000000000000001000000000000000000201038517100000000000000000000000000000100000000000100000000000000000020000201038518100010010000000000000000010000000000000000000000000000000000000000201038519100000000000000000000000000000000000000000010000000000000001000010201038520100000100000000000000020000000000000000000000001000000000000010000201038523100000000000000000000001000000000000000000020000000000000000001000201038524100001000010000000000000000000000000000000000010000000000000000000201038525100000000000010000101000100010000010000000000000010000000000000000201038526100002000000000001000000001010000000000100000010000000010000000000201038527101010000000000000000000000000000000100000000001000000000001000000201038528100000001000000000000000101000000000000000010000000100000000000110201038529100000000000000000000000000000000000000000000000000000000000000000201038530100000000100000000000000000000001000000001000100000001000000000000201038531110000000000000000000000010000000000000000000000000000001000000000201038532100000000000000000021000000000101001000000000000000000000000000200201038533100100001000100000000110001000000010000000001000000000000100000000201038534100000000000001000000000000000000000000000000000000000000001000000201038535100000000000000000000000000000000000000000100000001000000100000000201038536100000000000000110001000000001000000000000000001000000000000000000201038539100010000100000000100002000000000000000100000000000100000000000100",
    "201038540100000000000000000000000001000000000000000000002000011000000000000201038541100000100001000000000000100000000001000000000000000000000000000000201038542100000000000000000000000000000000000000000000000000000000200000000201038543110000000000000200000000100000000000000000010000000000000001000000201038544100000001000002000000000000000000000000000000000000000000100001000201038545100000001000000000000000000000000100000100000000000000000120000000201038546100000000000101000110200000000001100000030000000000100000000010000201038547100000000000000001000000000000000010000000000000000100100001000000201038548100000100000000000000000000000000000000000000110000000000100002000201038549100000000000000000000010000000000000000000000000000100000000000000201038550101000000010010000000000000000010000000000000000100000100000000001201038551100000000000010000000000000000000100100000000000001000000000000000201038552100000000000000000000000000001101000001000000000000000000000000000201038553100000000000010000000000000000100000000000010100020000000010000010201038554100000000000000000000000000000000100000000000000001000001003000000201038555100000000000000010000000000000000000010000001000000000000000000000201038556100000000000000000000000010010000000000000000010000000000000100000201038557100000000001000000000000000000000001000000000000000000000000000000201038558100000000000000000000000001000000000000000000001000000000000000001201038559100000000000000000000000000000000000000000000001000000000000000000",
    "201038560100000000000000000000000000002000000000000000000000000000000000000201038561100000000000100100000001010000000100000100000000000000000000000000201038562100000000000000000000001000000000001000011000000000000000100100000203045002100000001000000000000000000000001010000000000000000000000000000000203045008100000000000000000000000000000000100000100000000000000001000010100203045009100000000000000010000000001100000000000000000000010000000000000010203045014110000000000000000010000000000000010100000000000000010000000000000203045015100000101000000001000000000000000000000000000000000000000000000000203045021110000000000000000000000000001000000000000000000000010000000000001203045027100000001000000000000010000100001001000100000000000100000000000000203045028100000000000000001000000000000000000010000010000000000000000000000203045035100000000000000000000001000000000000000000000001000000000000000000203045036110000000100000000000000000000010000000000000000000001000000000000203045039100000000000000000000000000000000000000000010100000000000000100000203045040100000000000200000010000000000000000000010000000000000000000201000203067002110000100100000000000000000000000000000000000000000000000000000000203067008100000000010000100100000000000000000000000001000001000100000010010203067009100000010000000000000000000010010100000000000000000000000010000000203067014100000000000000000100000000001101000000000000001100000001000000000203067015100000000000101000000000000110000100000000102000000000000000000000",
    "203067021100010000100000000010000000000010000000001000000000000000000000010203067027101000000000000000000000001000000000001000000000000000100000001000203067028100000001000000000000000000000000000000000000000000000000000010000203067035102000000100000000000000000000000000000010000000000000000000000000203067036101000000000000000000000010001000000000100000000000000000000000000203067039100000000100100000000000100100100000010000000010000000000000000000203067040100000000000001010000000001010011000000000000000000000001000100000203048002100000000000000001000000000000010000000000000000000000000000100000203048008100000010001000000000000000100000000000010000000000000100000000000203048009110000000000000002000000000000000000000000101000000000010000000010203048014101000000000000000000010100000000100000010000000001000000000000000203048015100000000000000000000010000000000000000010000000100000000000000000203048021100000100000000010000000000100000000000000001000000000000000000100203048027110010000000001000000010000000000000000000000000000000000000000000203048028100100000000000000000000000000000000000000000000000000001000000000203048035100000000000000100000000000000000010000000010000000000000010000000203048036100100001002000000000000000000100000000000000001000000100000000000203048039100000000000000000000000000000000000000101000000000000000100000000203048040100000100001000000000000000000010010001000000000010000000000000000203052002100000000000000011010000000000000000001001000000000000000001000000",
    "203052008100000000000000000000000000000000010000000000000000000000000000000203052009100000000000000000000000000000000100000000000100000100000000000000203052014110000000100010000000010100000000100010000000100000000000000000000203052015110000000000000000002000000000000000000000000000000000000000000000203052021100000000000000000000000000000000000000000100000001000000000000010203052027100000000000000000001000000000000000000000000000000000010010000000203052028100000000000000010000000000000000000001001000000000000010000000000203052035100000000000010000000000100000000000000000000000000000000000000001203052036100000000000001000000000001000000000000000000010001001000000000100203052039100000010000000000100000000000000000000000000010000000000000000000203052040100000010000000001000010000000000000000000000000000000000000000102203057002101000000000000000000100000000000000000000000000000001000001000000203057008100000011001001100000000000000000000000000000000000000000000000010203057009100100000000000000001000000000000000000000000000000000000000100000203057014100000000100000000100010000010010000000000000000010000100100000100203057015100000000000000000000000000100000000000000000000000000000000000000203057021100100000100000010000000000000000000000000000000000000000000000000203057027100100000000000000000000000000001000000000000000000000000000000010203057028100010000000000000000000000000000000000000000000000000000000100000203057035120000000000000001000000001101000000001000000000100000010000000000",
    "203057036100000000000001010000000000000000001000000000000000000100000000000203057039100000000000000000000000000100030000000010010001000000000000000000203057040100020000001000000000000000000000000000000000000000000000000000000204059004100000000200000000000000000000000000000000000000000000000000000000204059008100000002000000000000000000000000000010000000002000000000000000000204059009100010000000000000000000000000010010000000000100003000000000000000204059010100000000000110100000000000000000000000000001000000000000000000000204059011100010000000000000010000000000000000000000100000000000000000000000204059014100000000010000000000000100000101000000000000000000020000000000100204059015100000000000001000002000000000000000000000000000000000000000000000204059016100010100000000001001000000000000000000000000000000000000000000000204059017100100100000000000000000000100100000000000000000000000000000001000204059021100000000000000000000000000000001000000000000000000000000000000000204059022100000001000000000000000000000000000000000000010000000000000000100204059023100000010000000000000000000000000001000000000000000000100100010100204059027101000000000000000000000000000000000000000100001000000000000000000204059028100000000000000000000000100000000000000000000000000000020010010000204059029100000000000000001000000000000000000010000000000001000000010000000204059030100000000000000000000000000000000000000000000000000100000000000000204059035100000000000000000000000001000000000000000000000000000000000010000",
    "204059036100000000010000000000000000000000000000000000000000000000020000000204059039100000000000000000000000000000000100001000000000000000000000000000204059040100000000000000000000000000000000000000000000000000000000100000000204059041100000000000000000000000000000000000000000000000010000000000000000204059042101000000000100000000000000000000000000000000000000000000001000000204059046100002000001000001000000000000000000000000100000001000000000000000204059049100000000000000000000000000000000000000000000000001000000001000000204059053100010000000000000000000000020000001000000000000000000000000000000204059054100000000000101000010000000001000100000000000000000000000000000000204059058100000000000000100000000000000100000000000000000000000000000000000204073002100000001000001000001000100000000010100010000000000000001010001000204073008100000100000010000000000010000001000001000000000011000000000011000204073009110000010000000000000000000000000000000000000000000000000000000001204073014100001000000000000000000000000000000000001000000000001000000000000204073015100000002000000000010000000000000000000010000000000000100000000001204073021100000000010000000001000000001000000000000000000000000000100000000204073027100000000000000000010001010000100010010100001000000000000100000000204073028100000000000000000000000010000000000000000000000000000000001000000204073035100000000010000000000000000000100000000000000000000000000000000000204073036100010000000000000000000000000000000000000000000000000000000000000",
    "204073039100000000000000000000000000000000000000000000000000000000000000000204073040100000000000000000000000000000000001100000000000001100000000000000204073563100000010000000000000000000000000110000000000000000110000000100000204073564100000000100000000000010000000000000000000000000000010001000000000204073046100000000010000100000001000000010000001000001000000000000000000000204073049100000000000000000000000000001000000000000000000000000000000000000204073053100000000000000000000000000000000000000000000000000000000000000010204073054100100000100000000000000000000000000000000000000110000000000100100204073058100000000000000010000020000000000000000000000000000000000000000000204566563100000200000010000000000000000000000000210100000001000000000000000204566564100000000000000000000000000000000010000000000000000000000000000000204569563100000000000000000000000000010100000000000100000001000000000000001204569564100001000001100000000000000000000000000001001000000000000000000000204048002100100000000000000000000000000000000000000000000000000000000000000204048570100000000000000010000100000000000000000000000000000000000000000000204048571100000001000000000000002000000000010000000000000001000000000000100204075002100000000000000000000000001000000000000010000000000000000100000000204075008100000000000000100000000010000000000000000000000000100000000000001204075009100000000000000000000000000000000001001000000000000000001000100000204075014100000000000000000000000000100000000100000000000000000000000010001",
    "204075015100000000000000000000000000000000000100000000000000000010000000000204075021100000000000000000000100000000000000000000000000000000000000000000204075027110000000000000000010000100001000000000000000000000000000000000000204075028101000100000000000000000000000000000000000000000100000000000000000204075035100000020100000000000001000000000000000000000000000000000100000000204075036100000010000000000000000000000000000000000000000000000000000000000204075039100000000000000000000000000000100000000000000000010000000001010000204075040110001000001000000010100000000000000000000000000000301001000100100204075046100000000000000000000000000000000001000000000000000000000000000000204075572100010000000000100000010000000000100000000000010000000000000000000204075049110000010000100000000000000000000000000000000000000000000000000010204075053100001000000000000100001001000000011000000000000000000000000000000204075054100000000000000100000000100000010000010000020000000000000000000000204075573100000000000000000000000000000000000000000000000000000000000000001204075058100001000100000000000000100000000000000100000100000000000000001000204075574100000000100000000000000000000100000000100000000000000000000000001204075575100000000000000000001000000000000100000000000000011100000000000010204075576100000000000000000000000000000001000000000000000000000000000000000204075577100000010000000000000000000000000000000000000000000000000000000000204522008101000000000000000000001000000100000000010000000000000001000001000",
    "204522009101000000010000000000000000000100000001000000000000000001100000000204522014100010000010000000010000000100000000000000000000010000010000000001204522015100000001000001000000000000000000000010000000011000000000000000000204522021100100100000000001000000000000010000000000000000000000000000000000204522027110000000000000000000000001000000100000000000010010000000000000000204522028100000000000000000000100000010000000000000000001000010100000200000204522035100000000000000000000000010000000101000000000000000010000000000000204522036100000000000000001000000000100000100000000000000000000000000000001204522039101000000000000000000100000000000000001000001000000000000000000010204522040100000000000000000100000000000000000000000000000010000000001000000204522046100010000000000000000000100000010000000010000000000000100000000000204522049100000002000000000000000000000000000000000000000000000000000000000204522053100000000001000000000001000000000100000000000000000000000000000000204522054100000000000100010000000110000000100000000000000000000000010000000204522058100100000000000000000011000000000000100000000000000000000000000000204538008100000020000000000000000000000000000000000000000000000000000000000204538009100200000000000000000001000000010010000000000000000000000000100000204538014100000000000000000000000000010010000010010000000000000000000001100204538015100000000000000010001000000000000000000010000000000000000000000000204538021100010000000000000000100000011000000000000100000010000000000000000",
    "204538027100000100000000000000000000000000000000000000110000000000000000000204538028100000000001000000000000000000000000000100000000000000000110100100204538035100000000001000000000000000010000000000000000001000000000000000010204538036100000000000000000000000100000000000100000000000000000000000000000204538039100000001001000000000000000000000000000000000000000000010000000001204538040100000100001000001000000000000000000000000000000001000000000000010204538563100000000000000000000000000000000000010000000000000000000000000000204538564100000000000000000000000000000000100000000000000000100000001000000204538046100000000000000000000000000100000001000000000000000001000000010000204538572110010000010000000000000000000000000000000000000000000000000000000204538049100000000000000000000000000000000000000000010010001000000000000100204538053100000000000000000000000010000000020000000000001010100000000000000204538054100000000001100000000001000000000000000010010000001000101000000000204538573100000000000100000000000000001000000000000000000100000000000000000204538058100000000100000000001000000000010000000000000000000100001000000000204538574100000100000000000000000000000000000000000000000000000000000000000204538575100100000000001000100000000000000000000000000000000000000001000000204580563100000000000001000000000200000000000000000000000000000000000000000204580564100000100000000000100000000000000000000010000000000000000000000000204583563100000000000001000001000010100000100000001000000000000000000020200",
    "204583564110000001000000000000000000000000000000000000001000000100000000000204585563100000100000000000002010000000000000010000000000000000000000001000204585564100000000000000002001000000000000000000200000000000010000000010101204586563100000000000000000000000000001000000010000100000000001000000000000204586564100000000000000000000000000000000000000000000000000000010010000000204589563100000000001000000000000000000000000000000000000000000000000000000204589564100000000000010000000000000001100000000000000000000000000000000000204590563100001000010002000000000011100100000000010000000000000001000000000204590564100000000000000000000000010000000000200000000000000000000101000010204594563100000000001001000000000000000000000000000000100000000000000000000204594564100000000000100010000000000000000001001001000000000000000000100000204597572100000000000000000000000000000000000000000000001100000000000100010204597049100100000000000000000010000011200000000000000000000000000000000000204597573100000000000000000000000001000001000000000000000000000000000010000204597058100000000000000000001001000000000011000000000000000000000000000000204597574100000000000000000000000000000000000000001000000000000000001000000204597575100000000000010000000000000000000000100000010100000000000000000000206076002100100000000000000000000000000000000000000000001000000000002000010206076598100000000000000000010000010000000000000100000000000000000000000000206076599100000000000000000100010000000000000100000000000000000000100000001",
    "206078002100000000000000000000000000210000000000000000000000000000000010000206078600100000000000000000000000000000010000010000000000000000000000000101206078601100000010000100000001000000000000000000000000000000000000100000000206078602100000000100001000000000000000000000000000000000000000000000000000206078603100000000000000000000000000000000000000100000000010001000000000000301007081100000000000000000000200000000001110000000000001001000000100000000301007082100000000000000001000100000101001000000000000000000000000000010100301007083100000000000010000100000200000000000000001000000000000000000000000301007084100000000000000000000000000000000000000000001010000010000000000000301007085100000000000000000000200000000000100000000000000000000000000001000301007086100000000000000001000100000000000000000000000000000000100000100000301007087100000000001000000000000000000000000000010000100000000000000000000301007088100100000000000100000000000000000000000000000000010010000000000010301007089100000000000000200100100000000000000000000000000000000000000000000301007090100000000000000000000000000100000000000000000000000000000000010000301007091100000000000020000000000000000000001000001000101000000000010000000301007092100000000000110000000000100000000000000100000000010000000000000000301007093100000100000000000000000000000010200000000000100000000000000000000301007094100010000000000000000001000000000000000000000000000000000000010000301007095110000100000000000000100000000000000000000000000000000000000010000",
    "301007096100000000000100000000000200000010000001001000000000000010000001000301007097100000000000000000000000000000000000000000000001000200000000000000301007098100000000000000000000000010000000000010000000000000000000000000000301007099100000100001100000000000000000001000001000000000200000200000001000301007100100000000010000000000000000000000000000000000000000000000000000000301007101100000000000100000000000000000000000000000000100000000000000000010301007102100000000000000000000000110000000001010000001000000000010011000010301007103100000000002201000000000000100000000000000000000000000000000000000301007104100001000000000000000000000000000000000000010100000000000000000000301007105100000000000000000000000001000000110001000000000000000000000000000301007106100000000000000100000000000000000100010000000000000010000000000000301007107100000001100000000000000000010000000000010200100000000000000000000301007108100000000111010000000000000010000000010000000000000000001001000000301007109100000000000000000000000000000200000000000000000000000010000000000301007110100000000000000000000000200000000000001000000000010000000000000000301007111100000000000011100000000000000000000000000001000000000000000010000301007112100000000000000000000000000000010000000000000000000000000000000100301007113100000000000000101010000000000000000000011000010000000000000000000301007114100000000000000100000000000000001001010000000000000000000000000000301007115120000000000000000000000000000000001000000100000000000000000000000",
    "301007116100000000000000000000010000000000000000000010010000001000000000000301007117100000000000100000000000000000000100000001000000000000100000000000301007118100000000000001010000000000000010000000001000000000000000000100000301007119100000000001000000000000000000000000000000000000000000000000000000301007120100100000000000000000001000001000000000000100000000000000000000000301007121100010000000000000100000000000010000000000000100000000000001000001301007122100000000000000000000000000000000000000000000000000000010100000000301007123100100000000000000000000000101000000000000000000001000000000001000301007124100000000000000000000100000000001010100001000100000001000000000100301007125100100000000000000000000000000000010000000000000000000000000000000301007126100000010000010100000000000000000000000000000000000001000000000000301007127100000000000000000000000000000000000000000010000000000000000000000301007128100001000000000000000000100000000000000000000010000000000000000001301007129100000000011001010000000000000010000000001200000000000000000000000301007130100002000200000000000000000000000000000000000001000001000000000000301007131100010010100000000000000000000010010000000000000000000000001000000301007132100000010000000000000000000000000000000000000101000110000000000000301007133100000000000000100120000000000000000000000000000000000000000000000301007134100000000000000000100000000000000100000000000010000000000000100000301007135100200010000000000000000000000100000001000000000000000000020000001",
    "301007136100000000000001000000000000010000000000000001000000000000000000000301007137100000011000001000000000000000000000000000000000000000000000000000301007138100000000000000000000000000000000000001000000001000000020000000000301007139101000000000000000100000000000000000000000000000000000000000000000301007140100020100000000000100010000000000000000000000000001000000000000000301007141100000001010000001000000001000000001000000000000100010000000000000301007142100001000000000000000000000000000000000000000000000000000000000000301007143100000000000000000000000000000100000010100000000000000000010000000301007144100000000000000000000000000000000001001000000000100000000000000100301007145100000001000000000000000010000000000000000000000000000000000000000301007146100001000000000000000000000000000000001000001000010000000000000000301007147100000000000000001000000000000000000000000000000000000000002000000301007148101000000000000000000000000100000100000000000000000100010000000000301007149100000000000000000000000000000000000000000000000000000000100000000301007150100000000000000000010000000000000000000100000000000000000000000000301007151100000000000000000000000200000000000000000001001000000000000000000301007152100000000000000000010000000000000000000000000000000000000000000000301007153110000000000000010000000000100000000000000000000000100000000000001301007154100000000000000000010000000000000010000000000010000000100100000001301007155110000010000000000000010000000100000000000000000000000001000000001",
    "301007156100000000000000000000000001000000000000000000000000020000000000100301007157100000010000000000100000000000100000000000000000000000000000000000301007158100000000000010000000000010010010000000000000100010100000000000000301007159100000000000000000000000000000000100000000000000000000000000000000301007160100000000010000000000000000000000000100000000000000000000000100000301007161100000000000001001000000000000000000000000010000100000010000000000301007162100010000000000000001000000100000000000000000000000000000000000000301007163100000000000000000000000000000000000000001010000000000000000000000301007164100010001000000000000010000000001000000000000000000000010000000000301007165100001001000010000000010010000010000000000000000001000000000000010301007166100000100000000000000000000200000000000000000000000000000000000000301007167100001000000010000000001000000000000000000000000000000010000000000301007168100001000000000000000000001000100000000010000100000000100100000000301007169110000000001000001000000000100001000010100000000001000001000000010301007170100000000000000000001100000000000000010000000000000000000000000000301007171100000000000000000000100000000000100010000000000100000000000000000301007172100000000000000000000000000000000000000000000000000000000000000110301007173100000000000000000000000000000000000000000000000000000000000000000301007174100000000001000100100000100000000010000100000000000010000000200000301007175100000000000001101000000010001000000000000000000000000000011000000",
    "301007176100000000000000000000000000000000000000000010001000012000000000000301007177100000001000000000000000000000000000000000000000000000000000000100301007178100000011000000001000000000000010000001000010000000001000000100000301007179110000000000000000010001000000000100000000000000000000000000000000301007180100000000000000000100000000000000000000100000000000000000100000000301007181100002100010000100100010000000000000000100000001000000000000000000301007182100000010000000000000000000000000000000000001001000000000000010000301007183100000000000000000001000000001000001000000000000010000000000000000301007184100000000000000000000000000000000000100000000000000000000100000000301007185100000000000100000000000000000000000000010000000000000000000000000301007186100000000000000000000000000000000000001000000000010000100000000000301007187100000001000000100000000000000000000000100100010000000000001000000301007188100000100000000000000000002000000000000000000000000000000000000000301007189100000000000000000000000000102100010100000000000000000000000000000301007190100000000000000000000002000000000000000000100000000000000000000000301007191100000000010200000000000000000000000000000000000000100000000000000301007192101000000000001000000000000000100000000000000000000000000000000001301007193100010100010000001000000000000000000300000000000000000000000100000301007194100100000000000000100000000100000000000000020000000000010000000000301007195100000000000000000000000000010000000000000000000000000000000000000",
    "301007196100000100000010000000001000000100000000000000000000000010000000000301007197100000000000000000000000000000010000000000000000000000000000000000301007198100001000000000000000000000200000000000000000000000000000000000010301007199100000000000000000100000000000000000000000000100000000000000000000301007200100000000000000000001000000000000000000000000000000000000001000000301007201100010000000000000001100000000000000000000000000000000000000000000301007202100000000000000000000000000000000000000000000000000000000000000000301007203100000000000000000000000010010000000000000000000000100000000000000301007204100001001001000101000000000000000000011000000000000000000000000000301007205100000010000000000001001001000000000000001000010000100000000000000301007206100000000000000000000000000000001000000000000001000000000000001000301007207100000000000000000000000000000000000100001000000000000001000000000301007208100000000000100000000000001000000000000000000000000000000100100001301007209100000000000000000000000000000000000000000000000000000000000000000301007210101000001000000000110000100000000100000000000000000000000000000000301007211100000000100000000000000020000000000001100000000000000001000000000301007212100000000000001000000000000000000000000001000001000000000001001000301007213101000001000000000000000010000000000000000000000000000000000011000301007214100000000100011000000000200000000000000000000000000000001000000000301007215100000000000000000000000000000000000000000000000000000000010000000",
    "301007216100000100000000000000000101000000000000000000000000000001000000000301007217100000000000000000000000000000000000000000000000000000000000000000301007218100000000000000000000100000000000000000000000000000000000000000000301007219100000000000000000000000000010000000000000000000000010000000100000301007220100000000002000000000000100000000000000000000100000000001000000000301007221101000000000000000000000000000000000000011000000000000000000000000301007222100000000000000000100000000010000000001000000000000000000000100000301007223100000000001001000000000000000000000001000000000000000100000000000301007224100000000010000000010000000000000000000000000000010001000000000010301007225100000000100000000000000000000000000000000010001000001000000011000301007226100000000000000000000000000000000000000000000000000000001000000000301007227100000000000010000000000000000000000000000201000000000000000000000301007228100000100000000000000000000000000000000000000000000000000000000000301007229100000000000000000001000000000000000000000000000100000000000000100301007230100000000010000000100000000000000000000000000000000000010000000000301007231100000010000000000001010000000000010000000200000000000000000000000301007232100010000001010000000000000100000000000000000001000000001000001100301007233100000000000000100000001000001000000000000000000000010000000000000301007234100000000000000000000000100010000010001000001000000000100000000000301007235100000000000000000000000000000000000000000001000000000000010000000",
    "301007236100001000000000010000100000000000000000000000000010000000000000001301007237100000000000000000000000000000000000000000000000100000000000000000301007238100000010000001000000000000000000000000000000010000000000000000000301007239100000000100000000000100000000010001000100100000001000000000000000301007240100002000000000100010000000000000000000000010100000000000000000001301007241100001000000000000000000000000000000000000000000001000010000000000301007242100000010000000000000000000000010000000000000000000000000000000001301007243100001102001000000000000000010000000010000000000000000000000000000301007244100000000000000000000000000000010000000000000001100000000000000010301007245100000000000100000000000010000000000000000000010000000000000000000301007246100000000000000000000000000000000000000000000000100000000000010000301007247101000000010000000000000100000001000000000000000000000000000100000301007248100000000000000000110000100001000000000000000000000000000000000000301007249100000000000000000000000000100001000000000000000000000000010000010301007250100020000000000000000000010000020000000000000000000001100000000000301007251100000000000000000000000000000000000000000010000000000000000100000301007252100000000000100000000000001000000000001000000000000100000000000000301007253100001000001000000000000000000100000000000000000000000000000000000301007254100000000000000000000100001000000000000010000000000000000000000100301007255100000000000010000000000100000000000000010000010100010100000000000",
    "301007256100000001000000000010001000000000001000000000000000000000000000000301007257111020000000001010001010000001000000000000100000000000000000110000301007258101000000000000000000000000000010000000010000000000000000000001000301007259100000000000000000000000010000000000000000100000000100000000000000301007260100000001001100000000000100000000001001000000000000000000000000000301007261110000000000000000001000000000000000000000010001000000010000000001301007262100000000000000010000000001000000000000000000001000000000000000000301007263100000000100000000000000000000000000000000010000000100100000010000301007264100000000000000000000100000000000001000000000000000000000000010000301007265100000000000000000000000000000000100000012000000000000000000000000301007266100100000000000000002000000000000000000000000000000000100000000100301007267100100000101000000000000000000000000000000100000000000000100000000301007268100000000000000000000000000000000000010000000100000001000000000000301007269101000000010000000000000000000010000100010010000000001000000020000301007270100000002001000000000000000000000000000000000000000000000000000000301007271100000110010000000000000000000000000110001000000000000010000000000301007272101000000000001000000000000000000000000000100000000010000000000000301007273100000000000000000000000000000001010000000000000000000000000001001301007274100000000000000100000000000000020000000000000000000000000001000000301007275101000010000000000000000000001100010010000000000000010000000000000",
    "301007276110000001000001010000000000000000000000000000000000000000000000000301007277100020000000000000000000000010000000000000000000000000000000010000301007278100000000000000000000000000100000000000000011001002000000000010000301007279100000000000000000000000000000000000000000000000100100000000100000301007280100000000000000000000000000000000000000000010000000000000000000000301007281100000000000000000001000000010000000000000000000000000000000000000301007282100101000000100000000000000000000000000000000000000000000000000000301007283100000000000000000002010000000000000000000000000001001000001010000301007284100000000000000000000020010000000000000000000000000010001000000000301007285100000000000000000000000000000010000001100100000000010000000000000301007286100000000000000010000001000000000100100100100000000000000000000000301007287100000000100000010000000000000000000000000000000000010001000001010301007288110000100000000000000000000100100000000000000000000000001000000010301007289100000000000000001000000000000000000000000101000000000000000000000301007290110000000100010010000010000000000010010000000000010000000110000000301007291100100000001000000000001000000000000000000000000000000000000000000301007292100100000000000010000000010000000001000000010000000000000000000000301007293100000000000000000000000000000000000000000010000000000000000000000301007294100000020000001000000000000000000100000000001000000000000000000000301007295100000000000000000001000000000000000000000000000000000000000000000",
    "301007296110000000000000000000000000000000000000000000001000000000000000000301007297100000010000001000000000010010100000000000000000000000000000010000301007298100000000000010000000000000000000000000000100000000000000010000110301007299100000000010000000010000000000000000000000000000021000000100000010301007300100000000000001000000000000000000100000000000000000000000000100000301007301120000000100000001000000000000002000000000000000010001020020000001301007302100000000001000000000000001000000000000000000000000000110001000000301007303110000100000100001000000000000000000000000001000000000000010000000301007304110000000000000000000000001000000000000000000000000000000000000000301007305100000000000000001010000010000000000000000000000000000000000010000301007306100000000000000000000010000000100000000000000000010100010000001000301007307100100000000000000101000010000200000000000000010000010000000100001301007308100000000000000001000000100000000010000000010000000000000000000100301007309110000000000000000000000000000000000000000000000000000000000000010301007310100000000000000002001000000010010000000000000000000000000000000000301007311101000000000000010000000000000000000000000000000000000000110000001301007312120000000000000000000000000000000000000000100000000000000000001000301007313100000000000000000000000000000000000000000000000000000000000000000301007314110000000000000000000000000101000000000000000000000000000010000000301007315100000000000000000010000000000000000000000000000000000000000000000",
    "301007316110100000000000000100000000000000000000000000000000000000100000000301007317100000000000000000000001000000000000000000100000000000000000200000301007318100000000100000000000000000000000000000000000000000000000000000000301007319100100000000000000000100000000000000000000001000000100000000100000301007320100000000000000001000000000000000000000000000000000000000000000000301007321100000000000000000001000000000001000000000000000000000000000000001301007322100000000000000000200000000000000000000002010001000000000000000000301007323100000000000000000000000000000000000000000010000010100000000001000301007324100000000010000000000000000000000000000000000000000000001000000001301007325100000000000002000000000000000000100000000000000000000000000000000301007326100000000000000000000000000000000000000000000000000001010010000000301007327100101000000000100000000000000001000000000000000000000000000000000301007328100000000010000000000000000000000000000000000000000000000000000000301007329100000000000100000000000000000000010000000000000000010000000010000301007330100000000000000000000000001000000000000000000000100000020000000000301007331100000010000000001000000000000000000000001000000000001000000000000301007332100000000000000001000000000000000000000100000000000010000000000010301007333100000010000000000101000000000000000000000000000000100000000000000301007334100001000000000000000000000000000001000000000000000010000000000000301007335100000000000000000000000000000000000000000100000010001000000000000",
    "301007336100000000100000000000000000000000000000000000000000000000100000000301007337100000000000000000000000000000000000000000000001002000000000000100301007338100000001000000001010000000000100101010000001100000000000100000000301007339100000001000000001000000000000001000000000000000000001000000000000301007340100000000100000000000000000000000000000100000000000000000000000000301007341110001000000000000000000000000100000000000000000010000000000000000301007342100000000000000000000100001000000000000000000000000000000000000100301007343100000000000000000100000000000000000000001000100000000000000000000301007344100000000000000000001000000000001001000000000000000001000000000000301007345100000000000000000000000000000000000000000000000100000000000000000301007346100000000000000000000000000000000100000000000000000000100000000010301007347100000000000000000000000000000100000000000000120001000000000000000301007348100000000000000011000000010100000000000000010000000000000000000000301007349101000000000000000000000000000000000001010000000000000000000000000301007350100000000010100100000000010001000100000000000000000000000000000000301007351100000000000000000000000000000010001000000000000000000000000000010301007352100000100000000000000000000000000000000000000000000000000000000010301007353100000000000000000100000001100000000000000000000000000000100000000301007354100010000100000000000001000000000000000000000000000000000000000000301007355100000000000000000000000000000000000000000000000000000000000000000",
    "301007356100000000020100000000000000010000000000000100000000000100000000000301007357100100000100000000000000100000000000000000000000000000100000000000301007358100000000000010000000000000000001000000000000000000100000001000000301007359110100000000100000000000000000000000010000000000010000000000000100301007360100000000000000000000000000001010000000000000000000000000000000000301007361101010000010000010000000000000000000000010100000000000000001000000301007362110000000000000000100000010000000000000000000000000010000000000000301007363100000000000000000010000000000010000000000000000000000000100000100301007364100000000000000000000000000002000000010000010000000000000000000100301007365100000000000000010000000000000000001000000001000000000000000000000301007366100000000000000000000001000001000000000001000000001000000000000000301007367100111000000000000000001000000000000000000000000001000101000010000301007368100000000010000000000000000000000000010000000000000000100000000000301007369100000000000000011000000100100000000000000000000000000000000000000301007370100000000001000000001000000000000000000000000010000000000000000000301007371100000000010000100000000000000000100000000000000000010100000000000301007372101100000002000000000000100001000000000000000010000000001000000000301007373100001000000001000000000000000000000011000000000100000000000000010301007374100000000000000000000000000020000000000001000010100001000000000000301007375100000000100000000101020001000000000011000000000000010000000000000",
    "301007376100010000000000100000000000000000000000000010000000000000000000000301007377100000000000000000000000001010000000100010000000000000000000000000301007378100000000000000000000000000000000000000000000000000000010000000000301007379100000000000000000000000000000000001000000000000000111001000000000301007380100000000000000000000100000000000000000000000000001000100000000000301007381100000010100000000010001000000000000010000000000000100000000000000301007382100000000000100000000100000000000001000000000000000000000100000000301007383100000000000000000000000000000000000000000000200000000101000100000301007384101000011000000000000000000000000000000000000000000100000010000000301007385100000000010000000010000000000000000000000000000000100000010000000301007386100000000000000000000000000000000000000000000000000000000000000000301007387110000000000001000000000000000001000000000000000010000000000000010301007388110000000000000000000000000000001000000000120000010000000000001100301007389100000100000000100000000000010000100000000000000000000001000000000301007390100001000000000000010000000000000000000000000000000001000000000000301007391100000000000000000000000100010000000000000000000000000100000000000301007392100001000000100000000000000020000000000000000000110000000000000000301007393100000000000000001000000000000000000000001000010000000000100000000301007394100000000010000000000000000001000000000000000001101000000000000000301007395100000000000000000000000000000000010000000000000010000000000000000",
    "301007396100000000001000100001000010000000000000000000001100010000000010000301007397100000000110000000000000000000001000001000000000001000000000000000301007398100000000000000000000001000001000001010000000000000001000000002000301007399100000000000000000000000000000000000000000000000000000000000000000301007400100001000000000000000000000000000000000000101000001100000000000000301007401100000000000010000000000000000000000100000000000000000000000000000301007402101000000000000000000000000001000000120000000001000000000000000000301007403100010000000000000000000000000000000000010000001000000100000000000301007404120000010000000000000000000010000010100000000000000000001000000000301007405100000000000000010000000000000001010000100000000000000000000000001301007406100000000000000000010000000000000000000000000000000000000000000001301007407100100000000000000000000000000000100000000100000000000000000001000301007408100000000000000000000000000000000000000000000000000000000000000000301007409100000000000000000000000000000100000000100000000000000100000000000301007410100000001000000000000000000000000010000000000000000000000000000000301007411100000101000000000000000000000001000000000000100000110010000000000301007412100000000000001000000000000000000000100000000000000000000010000000301007413100000001000000000000000110000000000100000000000000000000000000000301007414100100000000010000000001000000010000000010001000000000000000000101301007415100000000000000002000000000000000000000000000000000000000000000000",
    "301007416100000000000000000000000000000000000000001002002000000000300000000301007417100001000000000000000100000000000010000000000000000000100000002000301007418100000000000000000000000000000000000000000010000000000300000000000301007419100000000000000000000000000000000000000000000000000000000000000000301007420101000000000100000001000000000000000000000000000100000100001000000301007421100000000001001000000000001010000000001000000000000000000100000000301007422100000010000000002000000000000000100000000000001001000000000100000301007423100001000101000010000000000000000000010000000000000000001000000000301007424100001010000000000000000000000000000000000000000000001001000000000301007425100000000000000000000000010000000000000000000000000100000000000100301007426100000000000000000000000000000020000000000000000000010000000001000301007427100000000000000000000100000010000000000000000000000000000000010000301007428100000000000000000000000000001000000000000000002000000000000000000301007429100000001000000000000000000000010000000000000000000000000000000000301007430100001000000000000000001100000000010000000000000000000000000010000301007431100000000000000100000000000000000000001000000010000000100000000000301007432100000000000000000000000000000000000000000000000000001000000010000301007433100000000000000000010000001010000000001010000000000000001010000000301007434100000000100000000000000000000000000000000000000000000000000000000301007435100000000100000000000000001000000010000001000000000100000000000000",
    "301007436100000000000000000010000000000000000000000000000000000000100000000301007437100000000001000000001000000000000000000000000100000000000011000000301007438100000000100000000010000000000000001000000000010000000000000000000301007439100000000000000001100011000000000000000000000000000000010110000001301007440100000000000000001000000000000000000000000000000000000000000000001301007441100000000000000010000000000000000000000000010000000000000000000000301007442100010000010000100000000000000000000000000010000010000000000000000301007443120000100000000000000000000000000010000000000000000000000000100000301007444101000000000000000000000000000000000000000000000000000001000000001301007445100001000000000000010000000000100000000000100100000000000000001000301007446100000000010000000000000001000000000000010000100000000000000000000301007447100000000000000000000000000000000000001000000000000000100000000000301007448101100001000000000000000000000000000000000000001000001000100000000301007449100000000000000000000000000000000000000000001000000101000000100000301007450100000000000000000000000000000000000100100000100000000000000000000301007451100000100000000100000000000000000000000010000000000030010000000010301007452100000000000000000000000000100000000000001001000001000000000000000301007453100000100000000000000000000000000000000000000000010000000000001000301007454100000000000000000010000000000100000000000000100000001110000000000301007455100000001000000000000010000000000000000000000000000000000000000000",
    "301007456101000000000110000000000000000000000000000102000000000100000100000301007457100000000000010000000000000001100000000000000000000000000100000000301007458100100000000000000000000000000001000000000010000010100000000000000301007459100001000000000000000000000000000000000000000000000000000000000000301007460100000000000000000100001000000001000000000001010000000000000010000301007461100000001000000000000000000000000000000000000000000010000000000000301007462100000000000000000010000000000000101000000000000000000000000000000301007463100000000000000000000000000000000001000001000000000000100000000000301007464100001000000000000000000100010000000000000010000000000000100000000301007465100010000000001000000000000000000000000000000000010000000000000000301007466100000000000000000010000000000000000000000000000000000000000010000301007467101030000000000000000000000010000000010010000000000000000000000010301007468100100000000000000000000000010000000000000000100000000000000000000301007469100000000000000000000000000000001000000010000000000100000000000001301007470100000000000000001020000000020001000000000000000000000000000000000301007471100000000001000000000000000000010000000000000000000000000001100000301007472101000000000000000000000000000000000000000001000000000002000000100301007473100000010000000000000000000001000000000000001000000000000000000000301007474100000000000000000000000010000000000000000000000000000000000000010301007475100000010000000000000000001000000000000000000000000000000001000000",
    "301007476100000001000000200000000011000100000010000000001000000000000000000301007477100000101000000000100000010000100000000000100000000000000000000000301007478110000000000000000001000010000000000000000000000001000000000000010301007479100000000000000000000000001000000000000000000000000100000000000000301007480100000100000000000000000000000000000000000100000001000000000000000301007481100000000000001000000000000000000000000000000000000000000000000000301007482100000000000000000000000001000000001000000000000000000000000000100301007483100000000000002000000000000000000000000100000000000000100100000000301007484100000100000010000001000000100000000000000000000000000000000000000301007485100000000000000000000000000000000000000000000000000010000100000000301007486100100000100000100000000001000100010000000000000000000000100000000301007487100000000000000000010000000000000000000000000000000000000000000001301007488100000000000100100000000000000000000010000000000000000000000000000301007489100000000000000000000000000000000000000000000000000000000000000000301007490100000000001000010000000100000000000100000000001000001000000000000301007491110000101100000000000000000000000000000000000000000000000000000000301007492100000001000000000000000000100000000000000100000000000000000000000301007493100000100000000000000000000000000000000000000100000000000000000000301007494100000000010000000000000001000000000000000000000000000000000100000301007495101001100000000000000010000001000000000000001000000000000000000100",
    "301007496100000001000000000010000001000000000000100000000000000000000001000301007497100001000000000000000000000000000000000010000000010000000000001000301007498100000002001010000010001000000000010000000000001000000001100010000301007499100000000000000000000000000000000000000000000010000000000000000000301007500101000000100000000000000000000000000000000000000000000001000000000301007501100000000000000001000000000001000000000010000000001000000000000000301007502100101000001000001000000000000000000000010000000000000000000000000301007503100001100010000000000000000000000000000000010000100000000001100000301007504100000000001000000000000000000000000000000000000000000000000000000301007505100000100010000000010000000000000000000000000000000100000000000000301007506100000000000000010000000000000000000111000000000000100000000000000301007507100000000000000110000000200000100000000000000000000000000000000000301007508100000000000000000000000000000000000100102000000000000000000000000301007509100000000000000000000000000200000000000000000100000000000000000000301007510100000000010000010010000000000000100000000000000000000000000000000301007511100000010000000000000000000000000000000000000000010000000010000000301007512100000000000000000000000000000110000010000000000000000000000000000301007513101000000000000010000000000000000000000000000000000000000000000000301007514100000000000000000000000020000010000000000000002000000000000000000301007515100010000000000000000000010000000010000100001010000000000000000000",
    "301007516100000000000000000000000000000000000000011000010000000000000010000301007517100000000000000100000000000000000000000000000000001100000100000000301007518100000010000000000010000000020000000000000000000000000000000000001301007519100000000000000000000000100000000000010000010000000010100000010000301007520110000000000000000000000000000000000000000000010000000000000000000301007523100000000000000000000000000000010000000000000000000100101000000000301007524100000000000000000000000000000000000000000010000000000000000000000301007525100000000000000000000000000000001000000000000000100000010000000000301007526100000000101000000010000000000000000000000000000000100010100002100301007527100000000002000000000000010000000000000001001000000000000000000000301007528100200000100001000000101000000000000000000000000000001010001000001301007529100000000000000000000000001000000001000000000000000000010000000000301007530100000000100100010000001000001000000000000000000000000000100001001301007531100000000000000000100000000000100000000000000000000000002000000000301007532100000001000000001000000000000100000000010000000000000000000000000301007533100000001000000000000000000000000100100000000000000000000100000000301007534100000000000010000000000000000000000000000000000000000000000000000301007535100000000100000000000000000000000000000000000000000000000000000000301007536110000000000000000001000000000000000010000110000001000001002100000301007539100000000000010100000000000001011000000000000000100000000000010000",
    "301007540100000000000110000001000000001000001010000000000010000000000000000301007541100000000000001000000000000000000000000000000000000000000000000000301007542100000000010000001000000000000000001000000010000000000000000000000301007543100000020000100000000001000000000020000000000000000000100100000000301007544100000000000001010000000000000000000000000000100000000000000000000301007545110001000000000010000000010001000000000000001000000000000000000010301007546100000000000000000010000000000000000000010000000000000010000010010301007547100000000010000000000000000000000100001000002000001100000000000000301007548100000000000000000001010000000000000000000101010000000100000000000301007549100000000000000000100000000000000000000000000000000000000000000000301007550101000000000010000001000000120000001000000000001000000000000000000301007551100000000012000000000000000000000000000001000100000000011000000000301007552100000000000000000000001000000000000000000000000000000000000100000301007553100001000000000000100000100210000100000000000000000000000000000000301007554100000000000000100000000100000000000000001000000000000100000000000301007555100001000000000000000000000000000000000000000100000020000000100000301007556100000000010000000000000000000000010000000000000000000000001000000301007557100000000000010001000000000000000000000000000000000000100000000000301007558100000000000000000000000000000000000000000000000000001100000000000301007559100000000000000000000000000000000000000000000000000000000000000000",
    "301007560100100000001000000000000000000000000000010000000000000000000000000301007561100000001000000000000010000001100000010000000000001001110100000010301007562100011000000000000110000000000100000000000000000000000000000010000301081000100000000000000000000000001000000000000000000000000000000000000000301082000100000000000000000000000000000000000000000000001000000000000000000301083000100000000000000000000000000001000010000000000000000010000000000000301084000100020000000000000000000000000101000000000101100000000000000000000301085000100000000000100000000000000000000000010000001000001000000000000000301086000100000000000000000000000000000000000000000000100000000000000000000301087000100000100001000201100000000100010001000000000101000000000000000011301088000100000000001000000000000000000010000000000000000000010000000001000301089000100000000000000000000000000000000000000000000000000000000000010010301090000100100000000000000000000000000000000000000000000001000000100000000301091000100000000000000100000000000000010000000001000000000000010000000000301092000100000001000010000000000000001000000100000000001000000000000000000301093000100000001000000100000100000000000000000000000000000000000000000000301094000100001000000001000000000001000000000000000000000000000000000000000301095000100000000000000000000000000000000000010000000000000000000000000000301096000100001000000000000000000000000000010100000000000000000000000000100301097000100000200000000011000000000000000000000000000000000000000000000000",
    "301098000100010000000000000000000000000100000000000000000000000000000000000301099000102000000000000000000000000000000000000000000000000000011000010000301100000100000000000000010000000000000000100000000000000000000000000000000301101000100010000010010001000000000100001000000000100000000000100001001010301102000100000000000000000000000010000000000000000000100000000000000000000301103000100000000000100000100000000000000000000000020000000000000000000000301104000100000000001000000000100000100001000000000100000000000010000000001301105000100000010000000001100001000010000000000000010000000000000000001001301106000100000000100000000000000100000000100010000000000001000000000000000301107000100000000000000000000100001010001000000100000000000000000000000000301108000100000000000000000000000000000000000001000000100000000000000100000301109000100000000000000000100010000000000000000000010000000000000000000100301110000100100100000000000000002000000000100000100000000000000000000000000301111000100000000000000000000000000001000000000000000000000000100000000000301112000100000000000000010000000000000000000001000000000000000000000100001301113000100010001110000000000001000010001020000001000000000000000000000000301114000100000000001010000000000000000000000000000000000000000100000001000301115000100000001000000000000001000000000000000000000000000000000000000000301116000100000000000000001000000000100000000000000000000000000000000000000301117000100000100000000000000000100100000000000000000000000000000000000000",
    "301118000110000110000000100000000000000000000000000000000000000000000000000301119000100000000010000100000000000000001010000000000000000000001000000000301120000100000010000000000000000100000000000000000010000000000000000002010301121000100000000101000000000000010001100011000000010000000000100000000000301122000100010000000000100000000000000000000000000000000000000000000000000301123000100000000000000000000000001000000000000000000000000010010000000000301124000100000000000000000000010001000000000000100000000000000100000000000301125000100000000000001100000000000000000000010000000000000000000000000100301126000100100100000000010000000000000000000000000000000010000000000000000301127000100000000000010000000010000000000000100000000000000000000000000000301128000100000001100000000000000000000000000000000000000000000000000000000301129000100001000000000000000000000000100000000000000000000000000000000000301130000100000000000000000000000000000000000000000000000000000000000000000301131000100000000000000000000100001000000000000000000000010000000000000001301132000100000000000000001001000000000000010000000001000000000000010000100301133000100000000000000000000000001000000000000000000000000000010100000000301134000100000000000000000001010000000000100000000000000000010000000000000301135000100000000000000000000000000010010000000100000000000001100000101100301136000100200010000100000000000000000010000000000100000000000000010000000301137000100000000010000000010000000010001000000000000000000000000000000010",
    "301138000100000000000000000000000000000000000000000000000000000000001000000301139000100000000000000000000100000000000001200000000000000000001000000000301140000100000000000000000000000000000000000000000000000000100000000000000301141000110001000000000101000100000000000000001000000000000000000000000000301142000101010000100000000000000000000000000000000000010000000000000001100301143000100000000000000000000000000000000000000000000100000000000000000000301144000100000010000100000000000000000000000010000000000000000000000000000301145000101000000100000000001000001110000000000000001000000000000000000000301146000100000000000100000000000000000000000011000000000000000000000000000301147000100000000000020000000000000100000000000000000000000000000000000000301148000100000000000020000000000000000000000000000000000000000001000000000301149000100000000000000000000000102001000000000000000000000000100001000000301150000100000000000000000000010000000000000010000000000000020000000000000301151000100000000000001001100010000000000000000000000000000001000100010000301152000100011000000001000000000000000010100000000000000100101000000000000301153000100000000000000000000000000000000000000000000010000001000000000000301154000100000000100000000000010000000000000000000000000000000000000000000301155000100000000000000000000010000000000000000000001000000000000100000000301156000101000010000000000000000000000000000000000000000000000000000000000301157000101000000110000000000000000000000100100000100001000001000000000000",
    "301158000100000000000000000000001002000000000000001000000000000000001000000301159000100000000000000000000100001000000100000000000000000000000000000000301160000100000000000000000100000000010000000000000000000000000000001000000301161000100010000000000000000000000000000000000000000010000001000010000000301162000100000000000000000001001000000000000010010000000000000000000000000301163000100010000000000001000000010000000010000000000000001000000000000000301164000100000100120000000000000000010000000000000000000010000100000000000301165000100000001010000000000000000000000000000001010000000000000000000100301166000110000000100000000000010000000000000000000000000000100000000000001301167000100001000000000000000000003001000000000000000000000000000000000000301168000100000000000000000000001000010000000000000000000000000000000000000301169000100000000000001000000000000000000100010000100000000000000000000000301170000100000100000000000000000000000000000000000000000001000000000000100301171000100000000000000000002000000001000000000000000000001000000000000000301172000100002000000000010010100100100100000000010000000000000000000000000301173000101000010000011000000100000011000000000010000000000000110000000000301174000100000000000000000000000000000000000000000000000000000000000000000301175000100000000010000000000000000000000000001000000000000000000000000000301176000100000001000000000001000000000000000000000000000000000000000000000301177000100000000001000010000000000010000000000000000100000100000010000100",
    "301178000100000000000000010000000010100000000000200000000000000000000010000301179000100000000000000100100000000000000000000000000000000001000000000000301180000100000000100110010000000000000101000000000000000010000000000001000301181000100001100000000000000001000000000000000100000000000000000000000000301182000100000000001100000001000000000010000000000000010000000000000000000301183000100000000000000000000000000010000000100100000000000000000000001000301184000100000000010000000000000000000000000001000000000000000000000000000301185000100000000000000000100010000000000000100000001000000100010010000000301186000100000000000100000000000100001010000000010000010000001000000000000301187000100000000000000000000000000000000000000010100000010000000000010000301188000100000000010000000000100000000000100000000000000000000000100000000301189000100000000000000000000000000000000020000000000000000000000100000000301190000100000000200000000000000100000000000000000000000000000000000000000301191000100000000000000000000000010000000000000001000000000000000000000000301192000100100000000000000000000100000100001000000010000000000000000000010301193000100000000000000000000000000000000000000000000000000000000001000000301194000100000000000000001010000000000000000000000000000000000000000001000301195000100000000100000000000000000000000000000000001000000000100010000000301196000100000000000000000000000000000000000000000000001000000000000000000301197000100000000000000000000000000000000000000000000000000000000000000100",
    "301198000100000000000000000000000000001020000000000000000000000000000000000301199000100100000000000000000100001000000000000000001100002000100000001000301200000101000000000000000000010000000000000000100000000000000000100000000301201000100000000000000000000000000000001000000000000100000000000000000000301202000100000000000000001010010010000000000000000000000000000000000000000301203000100000000010000000000000000000010000002010000000000000000000000000301204000100000000000011010000000000000000000000000000000000010000000000100301205000100010010000000000000000000000100000000001000000000001000000000000301206000100010000011000000000000100000000000010000000000000000000010000000301207000100000000010000000000000000000000000000000000000100000000000000010301208000100000000000000000000000000000100210000000000000001100000000000000301209000110100000000000010000000000000000000000000000000000000000100000000301210000100100000000000003000001000000000000000010000002000000000000000000301211000100000000010000000000000000000000000000000000000000000000000100000301212000100000000010000000001000001000000000010000100000000000000000000000301213000100000000000000000000000001000000000000000000000010000000000000000301214000100000000000000000000000000000000000000000000000000000000000000000301215000100000000000100000000011000000001000000001000100000000000000000000301216000100000000000000000000000000000000101000100000000010000000000000000301217000100000000000000000000000000000000000000001000000000001000000000000",
    "301218000100000000001000000000010000010000000000000000000000100000010000000301219000100000000000000000000000000001011100000000000000000000000000000000301220000100000000000100010000000000000000000000000001000000000000000000000301221000100000000011000000000000000000001000001000000000000000000000000000301222000100000000000000100000000000000000000000000000000000000100000000000301223000100000000010000000000000000000000100000000000000000000000000000000301224000100000000000000000000000000000001000010000000000000000000000000000301225000100000010000000000000000001000100000000000001000000100000000000000301226000111000000000001000000000000000000000000000000000100000000100000000301227000100000000001000000002000000000000000000000000000000000000000000000301228000100001001010000000000000000000000010000000000000000000000000000000301229000100000000000000000100000010000000000000000000000000010000000000010301230000100000100000010100000000001100000000000000000000000000000000000000301231000100101000000001000001000000000000001000000000000000000100000000000301232000100000000000000000000000000000000000000000100000000000000000000001301233000100000001001000020000100100010000000000110100000000000000000000010301234000100000000000010000000000000000000000000000000000000000000010010000301235000100000000000000000000000000000000000000000000000010000000000001000301236000100000000000000000000000000000000001000000000000010000020000000000301237000100000000000000000100000100100001010000000000000000000000000000100",
    "301238000100000002001000100000000000000000001000000000000000000000000000000301239000101000000000000000000000000000000000000000011000000000000100100000301240000100000000000010000000000000100000000000000000000010100000000000001301241000101010000000000000000000000000000000000000000000000000000000010000301242000100000000000000000000000010000000100000000000000000000000001100000301243000100000000000000000100000000000000000000000000001000000000000010000301244000100000000100000000000000100000000000000000000000000100000010000000301245000100010010000000001010001000000001000000000000001000000010010001000301246000100000000000000000000000001000000000000000000100000010000001000100301247000100000000000000000000000000010000000100000000000000000000000000000301248000100000000000000000000000000000000000000000000000000000000000000000301249000100000000000200000000001100001110000000000000000000000101000000000301250000100000000000000000000000000100110000000000000000000000000010000000301251000100001000000100001000000000010000000001000000001000001000000000000301252000100000010000000001000000000000000000000000000000100000000001000000301253000100000010000000000001000000000000000000000000000000100000000000000301254000100001000000000000000000000000000000010000000000000010000000000000301255000100000000000100000001000001000000000000000000000000000000000000000301256000100000000000100000000000000000000100000000000000000000200100100000301257000102000010000000001000000001000000001002000000000000100000000001000",
    "301258000100000010000001000001000100000000000000000000000000000000000000000301259000100100000100000000000000000010000011000000020000000000000000000000301260000110000000011100000000011001000000001000000100000000001001000000000301261000100000000000000000001000000001000000001000000000100000000010000000301262000100020000000000000000000000000000000000000100000002000000000000000301263000100000000000000010000100000000000000100000000000000000000000000000301264000101000001000000000000000000000000000000000010000000000000000000000301265000100000100000000000000000000000000000000000000000000000001000000000301266000100000100100000000000000001010000000000000000010000000000000000000301267000100000001000000000000000010000000000000000010000001000000000000100301268000100000000000000100000000000000010000000000000000000000010000000000301269000100000000000000000000000000000000000000000000000000000000000000000301270000100000000000000000000000010002000000000000000100011000000000000000301271000101001010000000003001000000000000000000000000000000000000000000000301272000100000000000000000020000000010000000000000100000000000000000001000301273000100000001000000000000000000000000010001000000000001000000001000000301274000100000010000000000000000000000000000000000000000000000000000000000301275000110000000000000000000000001000001000000000000000000000000000000000301276000100000000000000000000000100000000000010000000000000000001010000000301277000100000000000010000000000000000000000000001000000000001100000000000",
    "301278000100000100000100010010000010000000000000000000000100000000000000010301279000100010000000000001000000000000100000002000000001001000000100000000301280000100000000000000100000000000000000000000000000000000000000000000000301281000100000001000000000000000000000000000000000000010000000000000000000301282000100000000000000000000000010000000000001000000000000000000020000000301283000100000000000000000000000000000000000000010010000000000001000010001301284000100000000000000000000000000000000000000001000000000000000010000000301285000100000000000001100000000000000000000001000000000000000000000000000301286000100010000010000000100000000000010000000000001000000000000000000000301287000100000000000000200000000000000000000000000000000000000000000000010301288000100001000000000000020000000000000000000000001000000000000010000000301289000100000000000000000010000000000000000000000000000000000000000000000301290000100000000000100000000000001000000000000000000001000000000000000000301291000100000000000000000000000000000000000000000000000000000010000000000301292000101001000000000000000000000000010000000000000000000001000000100000301293000100000000100000000000000000000000000000000100000001000000010000000301294000100010000000000000000000001000000000000000000100000000000000000000301295000100000000000000001000000000000000000000000000000000000000000000000301296000100100000000000001000000000000000000000000000100000000000000001000301297000100000000000000000000000000000000000000000100000000010000001000000",
    "301298000100000000100000000000010000010000000000000000000000000000000010000301299000100000000000000000000000001000000000000020100000100000000100000000301300000100000100100000100010000000000000000000000000000000000000110000100301301000100000000000000000000000000000000001000000000000000000000001000000301302000100000001000000000001000000000000000100100000000000000010100000000301303000100000000001001000000000000001020000000000000000000000000000000000301304000100000000000000000000001000000000000000100000000000000100000000100301305000100000000000000000000010000100010000000000000011000000000001000001301306000100000000000000000001000000000000001000000001000010000000000000000301307000100000000000000000000000000000000000000010000000000000000000000000301308000100100000000010000000000000010000001000000100000000000000000000000301309000100000000000000000001000000000010000000000000000000000010001000000301310000100000000000000000000000000000000000000000000000000000000000010000301311000100000000000000001100000000000100000001000000000000000000000000000301312000100000020000000000000100000000000000010000200000000000000000000000301313000100000000000000000000000000000010000000000000000000000000000001011301314000100000000100000010000000100000000000000000000000001000000010000000301315000100000000000000000000000000000000000001100100000000001000000000010301316000100000000000000100000000000100000000100000000000001000000001000000301317000110010000000000000000001000000000000000000000000020000000000000000",
    "301318000100010000000000000000000010000000000000001000000000000000000001000301319000110000000000000000000000100000001000000000000000000100010000001000301320000100100000010000000010010000000000000001000000000000000000000100000301321000100000000000000000000000000000000100000000000010000000000000010000301322000101000000000000000000000000000000010001000000000000000000000000000301323000100100000100000000000000000000000100100000000000000000100000010000301324000100000000000000000000000000100010000000000000000000000000100101000301325000100000000000000000000000100000100000000000000100000000001000000000301326000100000000000000101000000000000000000000001000000000000000000000000301327000100000000011001000000000001000000000000100000001000000000000000000301328000100010000000000000001000000000000000000000000000000000000001000000301329000100001000000000000000010000100000000000000000000000000000000000000301330000100000000000011000000000000001000000010000000000001000000000000000301331000100000000000000000000000000010100000000000000000000000100000000000301332000100000000010010000000000000000000000000000000000000000000000000000301333000100000000100001000200100000000000000000000000000000000000000000000301334000110000000000001000101000000000000000000000000000000010000001000000301335000100000000000001000000000000000000000000000000000000000000000100000301336000100000000000000000000000000000000000000010000000000000000000000000301337000100000100100000000000000000000000000000001000000000010000000000000",
    "301338000100000000000001000000100000000000010000001000001000000000000000000301339000100000000000000000000000000010000000000000000000000000000000000000301340000100000000100000000010000000000000000000000000000000000000000000200301341000100100000001000000000000000000000000000000000002000000000000000000301342000100000001000010000100000000010000000000000000000000000000000010000301343000100000000000000000000000000000000000000100000000000000001000000000301344000110000000000000000000000000000000000000000000000000000000000010010301345000100000000001000100000000000000000000000000000000000000000000000100301346000100000000000000000000000000010000000010000110000000012000000000000301347000100010000000000200000000000000100000001000000000000000010000000000301348000100000000000000000000000000100000000000000100100000000000000000000301349000100000000000000000011000001000000010000000000000010000000000000000301350000100000000000000000000000000000000000000000000000000000030000000000301351000100000000000000000000001000000000001000001000000000000000100000101301352000100000000001001000000000000000000000000000000000000000000000000000301353000100000000000000100011000000100000001000000000000000010000000001000301354000100001000000000100001001100000000000000000000000000000000000000000301355000100000000000110000000000000110000000000000000000000000000000000000301356000100000000000000000111000000000000000000000000000000000000100000000301357000102000100000000000000000000100000000000000000000000100010000010000",
    "301358000100000000100000000000000010000000000000000000000010000000001000000301359000100000000000000000000000000000000000000000100000001001000000001000301360000100000000010000000001000001000000000000000000000000000100000000000301361000100100000000000000000000000000100000000100000000000000010000001000301362000100100000000001000000000000100000000010000000000000000000000000000301363000110000000000000000010010000000100000000100000000000000000000000100301364000100001000000000000000000000000100000000000000000000000000000010000301365000100000000000000000000000000000000000001000000000000000100000100000301366000110010000000000000000000000000000000000000010100000010000000000000301367000100000100101000000000100000000001000000000000000000101000000000000301368000100000000000000000000000000010000000000000000000000000100000000000301369000100000000000000000000000000000000000000010000010000000000000000000301370000100000000000001100000100000000000100000000000000000000000000000000301371000100000000000000001000000000000000000000001000000000010000000000000301372000100000000000200000000000000000000000000000000000000010000000000000301373000100000000000000000000100000000000000000010000000100000000011001000301374000100000000100000000000000000000000000000000000000001000100000000001301375000100000000000000000001000000000000000000000000000001000000000000000301376000100000000000001000000000000000100001000000000000000000000010000001301377000100000000000000000000000000000000000100000000000000000001000000000",
    "301378000100000000000010000000000000000000000000000010000000000000000000000301379000100111000000000000000000000000000000000001000000000000000000000000301380000100000100010100010000000000000000000000000000100000000000000000000301381000100001000000000100000000000000000100001001000002001000100000000000301382000100000100100000000000000000000100000000000000000000100000000000100301383000100010000000000001000000100000000000000000000000000000000000001000301384000100000000000000000000000000000002010000000000001000000000100010000301385000100000000000000000000010000000000000000000000000000000000000000000301386000100000000000000200000000000000020000000000000000000000100000000000301387000100000000000000000000000000000000000000000000000001000000000100000301388000100001000000000100000000000000000100000000001000000000000000200010301389000100000000000000000001000000000000000000000000000000000000000000000301390000100000000000000000010000000000000000000000000000000000000000000000301391000100000100000000000000100000000000010000010000000000000000000000010301392000100000000000000000000000000000000000000000000000000000000000000000301393000100000000000000000000000100000000010000100001000010000000100000000301394000100010100000010000000000000010010000000000000000000000000100000000301395000100100000000000000000000000000000001000000000000000000000100000101301396000100000000000100000000000000010000000000010000000000000000000000000301397000110000000000000000001000000000000000000000000000000000000100000000",
    "301398000100000101000000000000000000000000000000000010000000300000000000000301399000100000100000010000000010000000000000000000010000000100000000010000301400000100000000000010000000000001000000010000000000100000000100010001110301401000100000000010000010000200000010000000000000000100000000000001000000301402000100000000000000000000000001000000100000101000000000000000000001010301403000100000000000000000010000000000000000000000000000000000000000100000301404000100100000000000000000000000000010000001010010000000000000000000200301405000100000000000010000000000000010000000001000001000100011000000000002301406000100000000000000000000000000000000000000000000000000200000000000000301407000100000000001000000000000000000000100000000000100000000000000010000301408000101000000000000000000010000000000000001000000000000000000100000000301409000100000000000000001100000100000000101001000000000000010000000000000301410000100000000000000000000200000000000001000000010000100000000000000001301411000100000000000001000001000000000001000000000100000000000000000000000301412000100000001000000000000000000000000000000100200000000000001001000000301413000102001100000100000000000000000000000000010001000000000000000000000301414000100000000000002000010010000000000010000100010000001000020000010000301415000100000001000000000000000000100010000000000000000000000000000000100301416000100000000000000000000000000000000000100000000000000000000000000000301417000100000010000001000000000000000000000000000000000000001000000010000",
    "301418000100100000110000000000100000000100000000000000000100000000000000000301419000100000000000000010000000000011000000000000000000000000000000000000301420000110000000001000000000010000100000000100000000000100001010000000000301421000101000000010000100100000000000000000000000100010000010000000000000301422000100000000000000000000000000000000000000000000020000000000000000000301423000100000010000010000000000000000000000000001000000000000000000000000301424000100010000000100000000000000000000000000000100000000000100000000000301425000100000000000000000000100000200000000000000000000111000000000000000301426000100010000000000000000000000000200000000010000000000000000000000000301427000100000000000000000000000000000000000000000000000000000100000000002301428000100000000000000000000010001000000000000000000001000000000000000001301429000100000000000000000000000000000000000000000100100000000000000000000301430000100000010000000000000000000000000001000000010000000000000000010000301431000100000101000001000000000000000000000000111000000000000000000000000301432000100000000000010000011000000000000000000000000000000000010000001000301433000100000000000000000000000000000000000000000000000000001000000001000301434000100000100010000100000000000000000000100000000100000000000000000000301435000100000000000000010000000000000000010020000000000000010000000000000301436000101000000000000000000000000000000000000000000000101000000000000000301437000100010000000000000000000000000100000000000000000000000000000000000",
    "301438000100000000000000000000100000001000000000000000000002010000000000000301439000100000000000000000010000000010000000000010000000000000001000000000301440000100000000000010000000100000000000000000000100000010000000100000000301441000100000000000000100010000000000000000000000000000000002000000000000301442000121000000000000000000000000000100000000001100000000000000000100101301443000100000000000000000000000000000000100000000000000010000000000000000301444000100000000000000000000000000000000000000000000100000000000000000000301445000100000200000000000000000000000000000000000100000000001001100000000301446000100001000000000000000010000000000000000000100000000000000000000001301447000120001100000000000000000100000000000000000000010100000000010000000301448000100000000000000002000010000000010000000000000000000100000000000000301449000100010000000000000000001000000000000100000000000010000010000000010301450000100010000001000000000000000000100000000000000000000000000000000000301451000100100000001000000000000000000000000000100000010000100000200000000301452000100000000000000020000000000000000000000000000000000000010000000000301453000101000000000000000000000000000010000000000000001000000000000010000301454000100000000000000000000000000000000000000000000000000000000001000010301455000100000000000000000010000010000000010000000000000000000010000000000301456000100001000000020000000000000000010100200000000000000000000000000000301457000100000000000010000000000000000000000000000000010000000000000100000",
    "301458000100000010000000000000001000000000000010000000000010000000001000000301459000100000000000000010000000000000000010000001000000000000000000000000301460000100000000000100001000000000000000000000000000000000000200000010000301461000101000000010000000000000000000000001000000010000000001001000000000301462000100000000000000000000000010001000000100000000000000000000000000000301463000100000000000000000000100100000000100000010000000000000010100000000301464000100000001010000000000000000001100100010000000000000000000000000001301465000100000000000000100001000000000100000000000000000000000000000110000301466000100000000000000000000000000000000000010000000000000000000000000000301467000100000001001000001000100000000100000000000000000000000000000000000301468000100000000001010001001000000000100000000000000000040000000000010000301469000100000000000000000000000000100000100000000000000000000000000001000301470000100000100000000012000000000000000000100000000001000100000100010000301471000101000000000000000000000100000000000000000000000000000001000000000301472000100001001100000000000000000000000000000000000000001000000100000000301473000100000000100000001000000000000000001000000000000000000000000000000301474000100000000000000000000000100000000000000000000010000000000000000000301475000100000000000010000000000000000000000000010000100000000000000000010301476000100001000000000000000000100010000000001000000000000000000000000000301477000100000000100000000000000000000001110000000000100000000000000010000",
    "301478000100000000000100010000000010000000000000000000001000000000000000000301479000100000000000000000000010000000000000000000000000000000000000000000301480000100000000000100000000000000000000000000000000000000000000000000000301481000100000000010001000000000000001000000000000000000000000000000000000301482000110000100010000000000000000000000000000000000000000000000010000000301483000100000000100000101010000010100000000000000000000000000000000000110301484000100000000000000000000000000000000000010000000010100000000010110000301485000101000000000000000000000000000101100000000010000000000000000000000301486000100001000000000000000000001000000000000100000100000000000000010010301487000110001000000000000000000000000000000000000000100000000000110000000301488000100000001001000000001000000000000000000000000000000000000000000000301489000100010000000000000000000000000000000100000000010000000000000100000301490000110000010000000000000000000000000000000000000000000000000000000000301491000100000000000000000000001000000000001000000000000010100000000000000301492000100000000001010000000000000010000000000000000000000000000000000010301493000100000001000000000000000000000100000000000000000000000000000000100301494000100000000000000000001000000000000010001000000000000000000000000000301495000100000000000001000010000000000100012000000000000001000000000000000301496000111000000000000000000000000000000000000001000011000001000000000000301497000100000000000000011000000000000000000000000000100000000000000000000",
    "301498000100000000000000010000001000000000000000000000000000000000000000000301499000100000000000000000000000000001000010000010000000000000000000000000301500000100000000000000000000000000000000000001000000000000000000000000000301501000100000000000000001000000000000000000000000010000000000000000000001301502000100000000000001010000000100010000000000000000000101000000000010100301503000100000000000000000000000000000000000000000010000000000000100000000301504000100000000000000000000000000000010000100001000001000000000000000000301505000100000000000000100000000000000000000000000000000000000000000000000301506000100000000000001000000100000000000000100000000001100000000100001000301507000100000000000000000000000000000000000100001000000000000001000000001301508000100000000000000100000000000000001000000000000000000000010000000000301509000100000000001000000010000000000000000000000000000000000000010001000301510000100000000000000000000000000000000000000000000001000000000000000200301511000100000000000010100000000000000000000000000101000000100000000000000301512000100000000000000000000011000000000000000000001000000000000000000000301513000100000000000000000000000100000000000000000000000020000000000000000301514000100000000000000010000000000000000000010000000011000000000000000000301515000100000000001000000000000000000000110000010000000100000000100000010301516000100000000000000000010010000000000000001001000000000001000000000000301517000100000100000002000000000000001000000000010000000000000000000100000",
    "301518000100000000000000000000000000000000000010000000000001000010000000001301519000100001000000000100000000000000000000100001000000000000000010010000301520000100000000000000000000000000001000000000000101000010000100000000000301523000100010000100100000000000000101000000000010001000000000000000001000301524000100000000000000000000000100000010000000000000000000000000000000010301525000100000000010101000000000000000000001010000000000001000100000000010301526000100000000000000010010000000000000000000000000100000000000000000000301527000100000000000100000000000000001000000000001000000000000001000000100301528000100000000000000000000000000100000000000000000000010000000000000010301529000100000000000000001001010000000000000000000000100000000100000000000301530000100000000000000000000000020010010000002000000010001000000100000000301531000101000010010010000000000000000000100000001000000000000001000000000301532000100000000000000000000000000000000000000000000000000110000000100000301533000101000000000000000000000000000000000000100000001000001000000001000301534000100000000100000000000000000001000000000000000000000000000000000000301535000100000000010000001000000000001100001100000000000000000000000000010301536000100000000000000100000000000100000000000000000000000000000001001000301539000100000010000000000000000000000000000000000000000000000000000000000301540000100001000000010000000000000100010000000000100000000100000000000100301541000100000000000010000010000000000000000000000000000000000000000000000",
    "301542000100000001000000000010000000000000000001010000000000000000000000000301543000100002000000000000000000000110000000000010000000010000000000000000301544000100000000000000000000001000000000000010000000001000000000000000100301545000100000000000000001000000000000000000000000000010001000000000000000301546000100000000000000000000000000000000010000000000000000000001000000010301547000100000000000000000000000000000000000000000002000000000000000000100301548000100000000000000000000100000000000010000010000000101000000001000000301549000100000010000000000000000000000000000000000000000000000100001000000301550000101000011000000000000000000100000000000000000000001000000000100010301551000100000000100000000000000000000000000000000000000100000000000100000301552000100000000000000000000000000000000000000100000000000000000000000000301553000100000000000000000000000000000000100000000000000000000000000000000301554000100000000000000000000000000000000000001000000000100000000000000000301555000100200100000000000000000000000000000000000100000000000000000000000301556000100000000000000000100000000000000000000000000000000000000000000000301557000110000000000000000000000001000000000000110000000000001000000000000301558000100100100000000000000000000000000010010000000000000000000000000000301559000100000000010000000010000000000000000000000000000000000000000000000301560000100000000000000000000000000000000000000000000000010000000000000000301561000100000010000000000000000000000000000000000000000001000000000000000",
    "301562000110100000000000000000000000000000001000000000000000000100000000000301020081100000002000000000000000000000001010000001000000000000000000100000301020082100000000000001000100000010000000000000000010000010000000000000000301020083100000001000000000000010010000000010100000000001000000000000001000301020084110000000001000000000100010000000000000000000000000000000100010000301020085110000000000000010000000000000100000000000000000000001000000010000301020086100000000000000000100100000000000000000000000000010000000000000000301020087100010000000101000000000000000000010000000001000000000000000000000301020088100010000000000000000000000000000000000000000000000000000010000000301020089100000000000000010000000000000000000000000000010100100000000000000301020090101100000000000000000001000000000000000000000000010000000000201000301020091100000000000000100020000000000120000000100000000000000000000010002301020092100000000001000000000010010000001000000100000110000000000000000000301020093101000000000001000000000000000000010000000000000000000001000000100301020094100000000000000010000000000000000000000000000000000000000001001000301020095100000000010000000000100000000000000000000000000000001000001000000301020096100000001000000000000001000000000000000000000000000000000000000000301020097100010000000001000000000000000000000000000000000000100000000000000301020098101100100000100000100001001000000000000000000000000000000000000000301020099100001000000000000000000000000000000000000000000000000000000000000",
    "301020100100000000000000100000000000000000010010000000000000000000000000000301020101110000000000100000000000000000000000000000000000000000000000010000301020102100100000000000000000000000000010000000000000000000000000200000000301020103100000000000000000000000300000000000000000000000000000000100000000301020104100000000000000000000000000001001000000000000000000000000010000000301020105100020000000000000000001100000000000000100100000001000100000000000301020106100000000001000000000000000000000000000000000000000000000000000000301020107100000000100000000010000000000000000000000100000100000000000000000301020108100000001001202000001000000000000000000100000000000000000000100000301020109100000000000000000000000000000000002100000000000000100100000100000301020110100000000100000000000000000000000000000000000100000000000000000000301020111100100000100000100000000000000000000000000000000100000000000100200301020112100010000000000000000000100001000000000000000000000000000000000000301020113100000000000000000001010000000000000000000000000000100000000000000301020114100000000010000000000000000100000000100000010000000010000010000000301020115100000110100000000000000000000000000000110001000000000000000000000301020116100000000000000000000000000000000001000000000000100000000000000000301020117100000000000000001000000000010000000000100000000000000000011000000301020118100000000000100000000000000001000000000000000000000000000000000000301020119100000100000000000000000000000000000100000000000000000000000000000",
    "301020120110000000000000000000100100000000000000002000000000000000000000100301020121110000010000000000010000001000000100000000000000000000000000000000301020122100000000002000000000000000000000000000000001000000000000000000000301020123101000000000100000000000000001010000000001000000010000000001000000301020124101000000000000000000210100000000010000000000100100010000020010011301020125100000002000000000000010010000000000000000000000000010000000000000301020126100100000000000000000100000100000000001000000000001000000000000000301020127100000000010010000000000010002000001000010000000010000100000000000301020128100000000000000000000000000000000001000000000000000000000000000000301020129101010000000000000000000000000001000000000000000100000000000000000301020130100000000000000000110000000000000000000000000100000001010000000000301020131110000000100000000000000000000000010000000000010000010100100000000301020132100100001000000000000000000000001000000101000000000000000000000000301020133100000100000000001000000000000000000000000000000000000000000000000301020134100000011000000000010000000001000100010000000000100000000000000100301020135100000000000000200000000100000000000000000000000001000000000000000301020136100001000000000000000000000000000000000000001002000000000000000000301020137100001000000000000000000000001000000000000001010100001100000000000301020138100000000000000000000000000010000000000000000000000000000000000000301020139100000000000010000000000000000000000000000000000000000000000000000",
    "301020140100000000000000100000010000000000000000000000000000001100000100000301020141100000000000000000000000000000000000000001000001000010000000000000301020142100000000000000000000000000000000000000000000010001000000000000000301020143100000000000000000000000000000000000000010000001000000001000000000301020144110000000000000000000000000000000000001010000000000000000000000010301020145100000000100000000000000000000000110000000010000000000000000000000301020146100000000010000000000010000000010000010000000000000001000000000000301020147100000000001000000000000000001000000000000000000000000000000000000301020148110000000001001000020000200000000000000000000000000000000100000000301020149100000000001000000000001000000001000000000000000000000000000010000301020150100000001000000000100000000000000000000000000000000000000001000000301020151110100000000001010001000000000000000100000000000000000000000000000301020152100000000000000000000000000000010000000000000000000001000010000000301020153100000002000000000000000001000000000000000000000000000000000000000301020154100000000100000000000000000000000001000000000000001000000000000000301020155100000000000000000000000000000000000000000000000100000000000000000301020156100000000000000001100000100000000000000000000000000000000000000000301020157100000000000000001000001000000010000000001000000000000010000000000301020158100000000000000000000000000000000000000100000000100000000000000100301020159110000000000000000100000000000000000000010000000010000000000000000",
    "301020160100000000000000000000000000000000100000000010000100000001000000000301020161100000000000001000000000110010000000000000000001000000000000000000301020162100000000000000000000000000010000000000000000000000000001010000000301020163100000000000000000001000000000010000000000000000000000000010000000301020164100000000000000000000000000000000000010000000000000101000000000000301020165100000100100010000000000001000000000000000000000000000000000000000301020166100000000000000000000100001000000000000000100000000000000000000001301020167100000000000000000000000000000000000000000000000010000010100000000301020168110000100010100000000000000000001010000000000100000000000000000000301020169100000000100000010000000001010000000000000010000010000000000000000301020170100000000000001000000010000000000000000000000000000010000000000000301020171100000000001100000000000000000000000000100000000000000000100000000301020172100001000001000000000001000001000010000000000000000000000000000000301020173100000000000000001000100000000000000000000000000000000000000000000301020174100000001010001000000000000100000000001000000010100001000000000000301020175100000000000000000000000000000000010000010000002000000010000000000301020176100000000000000001000000000000000001000001000000000000000000000000301020177100000000000000000000000000000000000000000012000000000000000000000301020178100000000000000000000000100000001000000000100000000010000000000000301020179110000000000000000000100000100200000000000000000000000000000000000",
    "301020180100000000000000000000000000000000000001000001000000100000000000010301020181100000000000200000100100000000000100000010010000000000000000000001301020182110000010000000000000110000010000010000000020000000000000000000000301020183100100011000000000000000000010000000000000000000001000000000000000301020184100010000001000000000000000000001000100000000000000000010000000100301020185100000000010000000000001000100001000000000000000001000000000000000301020186101000000000001100000000000000000000000000000000000000000000000000301020187100100001000000020000000000000010000000000000000000000100001000000301020188100010000000000000000000000100000000000000000000000000000000000101301020189100000000000000000000000000000000001000020000000100000000000000001301020190100000000000100000000000000010001000000001000000000000000100000000301020191100000100100000001000000000000000000000100000010000000000000000000301020192101000000010000000000100010000000000000000000000000000000000000000301020193100000000000000000000000000000000000000000000000000020000000001000301020194100010000000000000000000000000000000110000000000020000000000000000301020195100000000000020000000100000000000000020000120000000000000000000000301020196100000000002100000000000000000001000000001002100000000100000101001301020197100000000000000000000000000000000010000000000000100000000100000000301020198100000100010000000100000100000000000000000010000000000000100000000301020199100000000000000000000010011000000000000000000100000000010000100010",
    "301020200100000100000000000000000000000001000000000000000000100000000000000301020201100000000000000000000000000100000000000000000001000100000000000000301020202100100000000000001000000011000000100000000000000000001000000000000301020203100000000000001000000000000000000000000000000000000000000010100000301020204100000001000000001000000010000000000000001000001000000100000011000301020205100000000010001000000010010010011001001000000000010000000000001000301020206100000000000000000000000001000001000000000000000000000000000000000301020207100000000000000000100000000000010001100000000000000000000000000000301020208100000000000000000100000000000000000000000000000000000000000000000301020209100001100000000000000000000000000000000000100100000011000000000000301020210100000000000000000000000000001010000010000000000000000000000000000301020211100000000000000000000001000001000000000000000000200000000000000000301020212100000000000000000000000000000010000000100000001000000000000000000301020213100000100100000000000000000000001000000000000000000000000000000000301020214100000000000000000000000000000000000000000100000000000000100000000301020215101000000000000000010000000000000000000100000000110000000000100000301020216100000000000010000000000000000000000000000000000000000000000000001301020217100000000100000000000000000000000000000000000000000000100000001000301020218100010000000000000000000000000000001000001000000001000000000000000301020219110000000000010000000011000000000001000000000000000000000000000000",
    "301020220100000000000000000000000100000010000000000000000000000000000000000301020221100100000000000000000000000000001000000000000000000001000000001000301020222100000000000000100000000000000000000000000001000000000100000000000301020223100000000000000000000000000000000000000000000000000001000000000010301020224100000000000100000000000000010000000000000000000000000000000000000301020225100000000000000000000020001000020000001000000000000000000000000000301020226100000000000000000110001010000000000000100010000000000100100000000301020227101000000000011000000000000000000000000000000000000000000000000000301020228100000010000100000000000000000000000000000000000000000000000000000301020229100000000000010000000000000100000000000000000000000000000000000000301020230100000000000000000000000000000010000100000010000000010000000000000301020231100000000000000000000000000000000000000001100000000000000010000001301020232100000000000000010001000000000000000000000000000000000000000000001301020233100000000000000000000000010000000100000000000000001001000010010001301020234100000010000000000000100000000000000000000000000000000000000000000301020235100000000000010000000000000000000000000000000000000001000000000000301020236100000100000000000000000001000000000000000000000000100100000000010301020237100100000000000000010001000001000000000000101000000000010010000000301020238100000001100000000000000001000010000000000010000000000000010000000301020239100000000001001000000000000000000001000000000001000000000000000000",
    "301020240100000000000000000000000000000000000000000000000000000000000000010301020241100000000000000101000000000000000000000000000000000000000000000000301020242100100000000000000000000000000003000000010000000101000000000000000301020243110001000000000000000000000010000000000000000000010000000000000000301020244100000010000000000000000000000100000000001000000001010000000000000301020245100000000000000000000010000000000000000003000000000010000000000000301020246100000000000000000000000000010000001000000000000000001001000000000301020247100000000010001000000000000100000000000000000000000000020000010000301020248100000000000020000000000000000010001000000100000000000000010010000301020249100000000000000000000000000000001000000000000000000000100000000000301020250100000000000000000000001000000000010000000000000000000000100001000301020251100000000000000000100000201000100100000000000000001000000000001000301020252100000000000000000000000000100000010200000000000000000000000000000301020253101001000000000000110000000000000000000000000000000000001000000000301020254100010000000000000000000100000000000100001000000010000000001000000301020255100000000000000000000000000000000000000000000000000000000000000000301020256100000000000000010000000010000001000100000001300000000000000000000301020257100001000000000000100000000000000000000000000000000000000000000100301020258100010000000000000110000000000000010000000000000000000001000000000301020259100000000001000000000000000000020000000010000000000000000000000000",
    "301020260100000000000000000000000000000001000000001000000010000000000100000301020261100000000000001000000000000000000000000000000000010000000000000000301020262100000000000000000000000000000000000000000000000000010000011010000301020263100000000000000010000000000000000000000000000100100000000000001000301020264101000000000000000000000000000000000000000000000000000000200000000301020265100000000002000000001000000101000000000010000000001000000001000000301020266110001000000000100000000000000000000000010000100000000000000010000301020267100000000000000000001000000100000000000000000000020000000000100000301020268100000000000000001000001000000011000000000000000000001000000000000301020269100000010000000000000000000000000000000000000000000000000000000000301020270101010001001000100000000010000000000000200000000000000000000000000301020271100000000000000000000000010000000010000000000001000000000000000000301020272100100000001000000000010010000000000000000100000000002000000000000301020273100010000100000000000000000000000000000000000000000000000010000000301020274100000000000010100000000000000000000001000201000000000000000000010301020275100000010000001000000000000010000000110000000000000000001100000000301020276100000001000000010000110000000000000000000000000000000000000100000301020277100000000010001000000000000000000000000000100000000000000000100000301020278100000000000000000000100001000000010000000000000000000000000001000301020279110000000000100000000000000000000000000000000001000000000000000000",
    "301020280100000000000010000000000000000000000000000000000100100000000000001301020281100010000000000010000000001000000000000000000000000000001010000000301020282101000000000000000000000000000000000000100000000000010000000020000301020283101010010001000000000000011000000000010000000000000000000000000000301020284100000010000000000000000000000000000000000000000000001010000000000301020285100000000000000001000100000000000100010000000000000000000000000000301020286100000000000000000000000000000000000000000000200000000000000000000301020287100000000001000000000100000000000000000000000000000001000000000000301020288100000000000000000000000000000000000000110100000000100000000000000301020289100000001000000000000000000100000000000000000000000000000000000000301020290100000000000010000000000000000000100000000000000000000000000000000301020291100000000000000000000000000010100000000000100000000000000000000000301020292100001000000000000000000000000000000000000010000000000000000000100301020293100000000000000000001000000100200000000000000000100000000000000000301020294110000000010000000000000000000000000000000000000100000000100000000301020295100000000000000000000010100000100000000000100000000000000000000000301020296100000000000100000011000000000000000000100000000000001100001000000301020297100000010000000000000000000000010000020000000000000000100000000000301020298100000000000000000000000010010000000000000000200000000000100000000301020299100000000000000010000000001000010000000000000000010000001000000000",
    "301020300100000000010000000000000000000000000000000001000000000000000000000301020301100000000001000000000000000000010000000000000010000001000000000000301020302100000000000000000000010000000001000000000200010010100000000000001301020303100010000000000000000000000000000000000000000000000000000000000100301020304100000000000000000000100100000000010000000000100000000000000000010301020305100000000000000000000001010000000000000000000000010000000000000000301020306100000000000000001000000100000000000000000000000000000000010000000301020307100001000000000100000000000000000100010000100000000000000000000010301020308100000000000010001000000000000000000000000000000000001000000100001301020309100000000000000000000000000000000000000000001001000010000000000000301020310101000000000000001000000100000000000000000100000000111000000000000301020311100000101000000000000000011000000000000000000000000010000000000000301020312100000001000000000000000000000000000000000000000000100000000000000301020313100000000000000000000000000000100000000000000001000000000000000000301020314100000000000000000000000000000000000000000000000000000000000000000301020315101000000000000010000000000000000000000101000010000000000000000000301020316100000000000001000000100000000000000100000000000000000100010000000301020317100000010000000010000000000000000000000020000000010000000000000000301020318100000100000000000000000000000010100000000000000000000000000100000301020319100000000001000000000000000000000000000000000000001000000000000000",
    "301020320100100000010000000000110010000000000000000000000000001022000000000301020321100000000000000010000000000010000000001000100000000011000000011000301020322110200000000000000000000000000000000100001000000001000000000000000301020323100020000000010000000000000000000000000020001000000000000000100000301020324100000000000000000000000100000100000001000000001000000001000000000301020325100000000000000000100000000000000001000000001000000000000000010010301020326100000000000000000000000000000000000000000000000000000000001000000301020327100000000000000000000000000000100010000000000000000100000000000000301020328100100000000000000000100000000011100000000000000000000000100000000301020329100000000000000001000120000000000000000000000000000000000011002100301020330100000000000000000000021000000000000000000000000000001000100000000301020331100100000000000000000100000000000000000000000000010000100000001000301020332101000000000000000000000000000000000000000000000000000000000000000301020333100000010000000001000000000000000010001000000000000000000000100000301020334100001000000000000000000000000101000000010000000101000001010000100301020335100010000100000000000000000000100010000000000000000010000001000000301020336100000002000000000000000000000000000001100000000001000000100010000301020337100010000000000000000000000000000000010010000000020000000000000000301020338100001000000001000000100010010000000000000000010000000000000000000301020339100000000000000000000000000000000000000000000000000100010000000000",
    "301020340100001000001000100000000000000000000000002000000000000000000000100301020341100000000001000000000000000000000010100000000000000000000000000000301020342101000000000000100000100001000000210000000000000000000000010001000301020343100000000000000000000010000000000100000100000000000000001000000000301020344100100000000100000000000000001000000000000000000000000010000000100301020345100000000000000000000000000000100000000000100000000001000020000000301020346100000000000100100000000000000000000000000000010000000000000010000301020347100000100000000000000000001000000000000000000000010000000010000000301020348100000000000000000000000000000000000000100000000001000000001000000301020349100000000000000100000000000001000000000000000010001000000000000000301020350100000000010000000000000100000000100000000000000000000000000000000301020351100010000000000000000000000000000000010010001000000000001000000000301020352101000000001000000001000000000000000100000000010001000010110000000301020353100000000000000000000000000000000000000000000000000000100000000100301020354100000000100000000000000000000000000000000000000300000000000000000301020355100000000010000010000000000000001000100000000000000010000001000000301020356100000000000000100000000000000000000000000000000000000000000001000301020357100000000000000000000000000000020100000000000000000000000000000100301020358100000000000000000010000000000000100000000000001100001001000000000301020359100000000010000000000000000100000000000001000000000000000000000100",
    "301020360100000000001000000000000000000000000000000000000101010000000000000301020361100001000000000000000000000000000000000100000200000000000000000000301020362110000000000000000000000000000000010000000001000000000000000000000301020363100000000000000000000000000000000000000000000000000000100000000000301020364100000000000000001000000001000000000000000000000000000100000000000301020365101000100000000000000000000000000000001000001000000000001000000000301020366110000000000001000001000000100001100000000000000000000000001000000301020367100000000010000000000000000000000000100000000000000000000000000000301020368101000000000000000010000100000010100010001000011000000000000001000301020369100000000000000000000000000000010000000000000000010010000200000011301020370100000000000000000000000011000100000100000000010000000000000000001301020371100000000010000000000000000000000000000001000000000010000000000000301020372100000000000002000000000000000000010100000000000000001000000000000301020373100000000000000000000000000111000000000000000001000000000000000000301020374100000000100000000000100000000000000000000000010000000000000100000301020375101000000000000000000000000000000000000000000100000000000000000000301020376100000000000100000000000000000000000000001000000000000000000000000301020377100000000000101010000000000000000000000010000000000000000010000000301020378100000100000000000000000000000000000000000000000010000000000000100301020379100000000000000100000000000002000000001000000000100000010000000000",
    "301020380100000000110000000000000000000000000000000000010000000000001100000301020381100000010000000000000000000000000000100100000000010000000000000001301020382100000000000000000100000000000000000000000000000000000100000000000301020383100101000000000000000000000010000000010000000100000000000000000010301020384100001000001000000000000000000000000000000000000000000000000000000301020385100000000000002001000000001000000000000000000000000000000100000000301020386100000000000000000120000000000000000000000000000000000000010010000301020387100000000000010010000000001000000000000000010010000001000000000000301020388100010000000000000000000000100001000011000000000000000000000000010301020389100000000000000000010000000000000010000010010200000000000010010000301020390100000000120000100000000000000000000000000010000000000010000000010301020391100000000000000000000000000000000000000000000000000000000000000000301020392110000000000000000000000000000010000010000100000000000000000000000301020393100000000000000000000000000000000000000000000000010000010010000000301020394100000000000100000000010000000100000000000000001000001000000111000301020395100000000010000001000000100010000000000000000000000000000000000000301020396100000000000000101000000000010100000000000000000000001100000000000301020397100000000000000000000000000020000010010000000000000000000000000000301020398100000000000001002000000000000000000000000000000000000100000000000301020399100100000001000000100000000000000000000000000000010000000000000000",
    "301020400100000000000000000000000000000000000000000000000000000001000000000301020401100000000000000000020020000000000100000100000000000000100100000000301020402100000000000000000000000000000000000000000000000001000000000100000301020403100000000000001000000000000000000000000000000000000000000000000000301020404100000000000000000000000000000000001100000000000100000000001000000301020405100000010010010000000300000000000000000001000000000000000000000010301020406100000000000000000000001000001000000000000000000000000000000010100301020407100000000100100000000000000000000000000000111000001000001000001000301020408110000000000000000000001000000201100000000000001010000000000000000301020409100000000000000000001001000000000010000000000000000010000000000000301020410100000000010000000000000000100000000100000000000000100000000000000301020411110001000000000000000000000000000000000010000000000000000000000000301020412100001010100001000000000000000000100000000000000000000000000000000301020413100000000000100000000100000000000000000000002000000000000000000010301020414100000000000000000000000000000000000001000000000000020000000000000301020415100000100000000000000000010000000000100000000000000000000000000000301020416100000000000000000100000000001000000000000000000000000000000000000301020417100000000000000000000001000000000000110000000000000000010000020000301020418100010000000000000100000000000000000010000000000000000000000000000301020419101000000000100000000000000001000000000000000000000000000000000000",
    "301020420110000000000000000000000000000000000000000000000000000000000000001301020421100001001100001000000100000100010010010000010011000000000000000000301020422100000000000000000000000010000100110000000000000000010000000000000301020423100000000000000000001000000000000000010001000000000000000000011000301020424100000000000000000100000000000000000000000000000100000000000000000301020425101000000000000000000000000000000010010000000000010000100000000000301020426100000000000000000000000000010000000000000100000010000000000000000301020427100001000000000000000010001000001000000000010000000000000000020000301020428100000010000000000000000000010000000000000000000000000000000000000301020429100100000000000000000100000100000000000000000000000000000000000200301020430100000000000000000000000000010000000100000000000000000000000000000301020431100000000000001010000000000000000000000100011000000000000001000000301020432100000001000000000000000000010000010000000000000000000000000000000301020433100000000000000100000000000010000000000000000000000000000000000000301020434101000000000000000000000000000010000000010000000000000000000000000301020435100000000001000000010001000001100000000000000000101010002000010000301020436100001100000000001000000000001000000000000000000000000000000100010301020437100000100000000110000000000000000000000000000000000000000000000000301020438100010000010000000000000000000000000100100000010000000000000000000301020439100001000000000000000000000000000000000000000000000000000000000000",
    "301020440100000000000000000000000000000000000000000000000000000000000000000301020441100000000000000000000000001010000000100000000100001000000000000010301020442110000000000100000000000010000002000000000000000100000000000000000301020443100200000000000000000000000000000000000000000000000000000000000000301020444110100000001000000000000001000000000010001000000000001001000000000301020445100000000000000000000000000000000000000000000000000011000000000000301020446100000000000000000000100000000000000000000000000000000000000000000301020447110000000000000000000000000000000000000001000000000000000000000000301020448100000000000000000000010000000000000000010100000000000100000010000301020449110000000010020000000000000000000000000000000001000000000000000100301020450100000000000010000000000000000000000000000000020000000000000000000301020451100000000000010000000000000010000000000000000000000000000000000000301020452100000000000000000000000000000001000000000000000000002000000200000301020453100000000000000000000000000000000000000000000000000000000000000010301020454100000000000000000000000210000000010000000000000000000000000000100301020455100001000000000000000000000000000000001010000000000000000010000000301020456100000000000000000000000000000000001000000001100000000000000000000301020457100000000000000000000000000000000000000100000000000001001000000000301020458100000000000000000000001000000000002300000100110010000101000000000301020459100000000000000000000000000000010000000100000000000000000100000001",
    "301020460100100000000000000000000000000000000000000000000000000000000000000301020461100000000000000000000000000011200000000000100000000000000010000000301020462100000000000000000000001000000000100000000000000000000000000010000301020463100000010000000000000001000000000000200000000000000000000100001000301020464100000001000010000000000000010000000000000000000000000000000000000301020465110000000000100000010000000000000000000000000000000000000000000000301020466100100000000000000000020000000000000000000000000000000000000000000301020467100000000001000000100000000000000000001001010000002000000000000100301020468100000000000000000000000000000000000000000000000000000000000000000301020469100000000000001000000000000000000000001000000000000000010000000000301020470100000000000000000000010000000000010100000000000110000000000000000301020471100000000000000000000000000000000001000001000000000000110000000000301020472100000000000000200000000000000100000000000000000000000000000000000301020473100010000000000000010000000101000000000000000010010000000000000000301020474100000000000000000000000000000000001000000000000000000000100100000301020475100000000000000000000001000000000000000000000000000000100000010001301020476100000001000000000000000000000010000000000001000010100000000100000301020477100000000000001000000000000000000000000000000000000000100000010000301020478100000000000000000000000000000000000000000000000100000000001000000301020479100000000000100200000000010000000010000010000000000000000000000000",
    "301020480100001000000000000100000000000000000000000100000000000000000000000301020481100000000000000000000000000000000100001000000000000000000000000000301020482100000000000000001000000000100000000000000000100000000000000000000301020483100000000001000000000000000000000000000000000000100000000100001000301020484100000110000000000000000010100000100000000000010000000001000000000301020485100000000000000000000000000000001000000000000000000000000000000000301020486100000000000000000000000000000001000000000000000001100000000000000301020487100100000100000000000101000000010000000000010000010000000001000000301020488100100000011000000000000000000100001000000000000000000001000000000301020489100000000010000010000000000000000000000000100000010000000001000000301020490100000000010000000000011000000000000001000000000000000000000000000301020491101000000000000000000000000000012000000010000001000000000000000010301020492100000000000000000000000000000000000000000000000000000011000000000301020493100000010000000000000002000000000000000000000000000000000000100100301020494100000000000000000000000000000000000000000000000100000000000000000301020495100000000000000000000000000000000000000000000020000001000000000000301020496100000000000000000000000000000000000000000000000000000000000000000301020497100000010000000000001000000000000000000000000000000000000000000000301020498100000100000100000000000000000100000100000000000000000000000000000301020499100000000000010000010000000000000000000000010000000000000000000100",
    "301020500100001000000000000000000000010000000000000000000000000000000000000301020501100000000000000000000000000000100000000000000001000000010000000100301020502100000000011000000001000100000000000001000200000000001000000000000301020503100000000000000000000000000000000010000001000000000000100000101030301020504110000000000000000000000000000000000000100100000000000000000000000301020505100000000000000000010000000000020000000010000000000000000000010000301020506100000100000000000000000001000000001000000000000000000000000000000301020507100001000000000000000001000000000000000000000000001000000000000001301020508100000000000001000000000000000000000000010000100000000000000010000301020509100000110000000000000102000000000000001110000000000000000000000000301020510100000000000000000000000000000010000010100000000000000000000000000301020511100010000011000000000000000000100000001000000000000000000001000000301020512100000000000000000000000000000000000000000000000000000000000010000301020513100000000000000001000000000000000001001000000000000000001000000010301020514100000000000000000000100000000000000000000000100100000000000000000301020515100000000000000000000010000000000000000000000010000000100000100000301020516100000000000000000100000000000000000000000000000000000000000000000301020517100000000000000000000000000000000000000000000000000100001000000000301020518100000000000000000000101000000100000002000000000000000000000000002301020519100000000000000000001000000000000000000000001000000000000000000010",
    "301020520100010000000000001000000000000000000000001000000000000000000000100301020523100000000000000000000000001000001010000000000000000100000000000000301020524100000000000000000000000000000000000000000000000010000001001000000301020525110000001000000000100000000000000001000000000010001100000000000000301020526100000000000000000000000100000000000010000000000000000100000000000301020527110000000000000000000000000000100000000000001000000000000100010000301020528100000000000001100100000000000000000000001002000000000000000000000301020529100000000000010000000000010000000000000010000002000000000000010000301020530101002000000001000000000000000000001000001100000000000000000000000301020531110000100000000201000000000100000000000000000010000000000000000000301020532100000010000000000000000100000001000000100000000000000000000000000301020533100000000000000000000000000000000000000000000000020000000000010000301020534100000000000001000000000000000000000000000000000000000000000000000301020535100000001001000000000000000000000000000000010000000000000001000000301020536101000000000001000000000000000000000000000000000001000000000100000301020539100000000000000000000000010100000000000000000000000000000000100000301020540110000000000010010000000000001000000000010000010000000000000000000301020541100000000000000000000000000000000000000000000000100100000000000000301020542100000000000000000000000000000000000000100000000000000000000001000301020543100000000000000000000000000000100000000000000000000000000200000000",
    "301020544100000001000000101001000000000000000000001000010000000000000000000301020545110000000002000001000000000000000100100000000000100001000000000000301020546100000000000100000000000000000000000000000000000000001000000000000301020547100000000000000000000000000010000010000000000000000000100000000000301020548110000000000000000000000000000000000000000000000001000000000000000301020549100000000000000000000000000000010000000000000000000000000000000000301020550100000000000000000000000000000000000000000000000000000000000010001301020551100000100000000000000000000000000000000010000000000000010000100000301020552100000010000000000000000010000100000000000000000000010000100000000301020553100000000000000000000000000000010000000001002000000000000010100000301020554100000000000000000000000000000000000000000000000000000000000000000301020555100000000000000001000000000000000000000001000010000010000000010000301020556100000000010000000000000000000000000000000000000000000000000000000301020557100000000000000000100010000000000000000000000000100000000010000000301020558100000000000000110010000000000001001100000000000000000000000000001301020559100000000000000000000000000110001000000000000000000000100000000000301020560100100000000000001000000000000000000000000000000001000101000000010301020561100000000000010000000000000000000000010000000000000101001000000000301020562100000001000000000000000000000000000000000000000010000000000000001301026008100000000000000000000200000000000000010000000000100000000000000000",
    "301026009100000000000000000000001000000010000000000000000000000000000000000301026010100000000100000100000000001000000100000000000010000000000000000001301026011100000000000000000000000000000000010000000000000000100000000000000301026012101000000000000000000000000000010000000100000000000000000000000010301026013100000000000000000000000001000000000000000000001000000100000000000301026014100010010000000000000000000000000000000000000000001030000000000000301026015100001100010000000000000000100000000001000000200000000001000000000301026016100000000000000100000100000010000000000000000000000000000000001000301026017100000010000100000000000000000000000100000100000000000000000000000301026018100010000010000000000000000000000000000000010000000021000000000000301026019100000000010000001000000000000000000000000001000000000000000000000301026021100100000000000000000000000100001000000000000000000000000000001000301026022100000000000100000000000100000000000000001000010000000000000000000301026023100000000000000000000000000010000000000000000000001000000000000010301026024100000010001000000000000000000000000000000000000001000100000000000301026025100000000000000010000000001000000000000000000000000000000100000000301026027100000100000000000000000000000000000000000000010000000000000000000301026028100000000000000000000000000000000020000000010000000000000000000000301026080100000000000000010000000000000000000000000000000000000000000000000301026029100000000000000000000000000000000000010000000000010000120000010100",
    "301026030100001000000000000001000000000000000000000000000000001100000000000301026031100000001000000100000000000000000000000010000001000000000000000000301026032100000010000000000000000000000000000000000000000000010000000000001301026033100000000000000000100100000000000000000000000000000000000000000000301026035100200000000100000001000000000100000000000000000000000000000000000301026036101000000000000000001000000000000010000000000000000000100000000000301026039100000100000000000000000000000000000002000000001000000000000000000301026040100000001001000000000000010000000000000000000100000000000000000000301026041100000000000010100000000000000000000020000000000000000000000000000301026042100000001001000000000000000000000001000000000000000000000010000001301026043101000001000100001000000000000000000000000000000000001000000000100301026044100000001000000000000000000000000000000010000000000010000010000000301026046100000000000000000000000001001000000000000000001000000000000001000301026049100000100000000000000200000000000000000000001000000000000000000000301026053100000000001000000001000000100000000000000000100000010001000000000301026054100000100000010000000000000000000000000000000000000000000000100000301026058100000000000000000000000000000000001100000000000000000000000000000301026060110000110000001000000001010000000100000000000200000000000000000000301026061100000100000010000000000000000000000000000000000000000000000000000301026081100000001010000000000001000000000000000000000001000000000000000001",
    "301026082100000000010010001000000000000000000000100000000000000000000000000301026083100000000000001000000000010000000001000000000010000000000000000000301026084100010000000000000100000000001000000000000000000000000000000000000301026085100000010100000000010000000000000000100000000100000000000000000000301026086100000000000000000000000000000000000000000000000000000000000100000301026087100000000000000001000000010000000000000000000000000000000000000000301026088100000001000000000020000000000000100100000000000000000000000000000301026089100001000000001000000000100000000000000000000000000000000100000000301026090100000000000010000000000002100000000000000000000000100000000000000301026091100000000000100000000000000010000200000000010000000000000010000010301026092100000000000000000000000001000000000000100000000010000000000000000301026093100000000100101000000000000000000000000000002000000000000000000010301026094100000000000000000010000000100000000000000000000000100000100000000301026095110000000000000000000000010001000000000000000000000000000010000000301026096100000000000000000000000000000000000000000000000000001000000000000301026097100000000000000000000000001000001001000000000000000000000000000000301026098100000000000000000100000100000100000000000000000000000000000000000301026099100000000000100000000000000000000001000000000000100001000000001000301026100100000000000000000000000000000000000000000000100000000000000000000301026101110000000000000000000000000100000010001000000000000010000000000000",
    "301026102100010000000000000010000000000000000000000100010000000000100000000301026103100000000000000000000000000000100000000100000010001000000000010000301026104100000000000000000000000000000000000000100000000000000000000000000301026105100000000000000000000000000100010000000000000000000000000000001000301026106100000000000010000000000000000000000000000000000000000000010000000301026107100000000001000000000000000000001010000000000010000000000000000000301026108100000000000001000000000000000000000000000000000000000000000000010301026109110100100000000000000000101100000000000000000110000000000000000110301026110100000000100010100000000000000000000000000000000000000000000000000301026111100031000000000000010000000000000000000000000000000000100000000010301026112101010000000000000010000000000000000000001000000100100000000000000301026113100000000000001001001010000000000000000000000000000000000000000010301026114100000000000000000000000000000000000000000000000010000000000000000301026115100000000010000000000010000101000000000000000010000000100000001000301026116100000000000100000000000000000101000000000000000000000000000000000301026117100000000010000001010010000000000000000000000000000000000000000000301026118100000000000000000000000000000001000000000000001000000000000000000301026119100000000000000000100000021010000000000000000000000001000000000000301026120100000000000000000000100000000000000000000100010000000000000001000301026121100000000000000000000000011000000000001000000000000010000000000000",
    "301026122100000002000000001000100000000000000000001000000000001000000100000301026123100010000000000000000000100000000000000000001000000000000000000000301026124100000000000000000000000000000000000000000100000000000000000000001301026125101000000000000000000000001000000000000000000000001000100000000000301026126100100000000000000001000000000000000000000000010000000000000000000301026127100000000000000000001000000001000000000000000000000000000000000000301026128100000000000010000000000000000010000000000000000000000000000000000301026129100000000000000000000000000000000000000010000000000000000001000000301026130111001000001000100000000000000000000000000000000000011000100000000301026131100000000000000000001000000000000000000000010000000000000000000000301026132110000000000000000000000010001000000000000001000000000010000000000301026133100000000000100000000000000010000000100000000000000000000000000000301026134110000100000000000000000000000000000000010000000010100000000000000301026135100000000000000000000000010000000000000000000000000000000000000000301026136100000001000000000000000000000000000000000101010000000000000100000301026137100000000000000000001000000000000000000000000000000001000000001000301026138100100000001000000000000000000000001000000000000000000000000000002301026139100000000000001100010000000000001000000000000000020000000000000000301026140100000000000000010000000000000000000000000000000000000010000000010301026141100000000000001000000000000000000010000000000000000101000000010001",
    "301026142100000000000000000000000001000000000000000000000000000000000000000301026143100100000000000000000000000000000010000000000000000000000100000000301026144100001000100000000000000100000000000000000000001000000000002000000301026145100000000000002000000100000000000000010000000000000000000000000000301026146100001000000010000000000001001000000000000000000000000100000000000301026147101000000000000000100000000000000000200000000000000000000000000000301026148101000000000000000100000000000000000001000100000000001000000000000301026149100000000000000000010100000000000000000000000000001000000000000000301026150100000000000000000000000001001010100000000000000000000000000000100301026151110000000000001100000000000000000000000000000000000000000000000000301026152100100100000001000000000000000000000000000001000000000001000000000301026153100000000000000000000000000000001000000000000010000000000000000000301026154100000000010000002010000100000001000000000000000000000000000000000301026155100000000000000010000000100011000001100000000000000000000000000001301026156100000000000000001000000010000000100000000000100000000000000000000301026157100000000100001000000000000000000000000000001010000000000000001000301026158100110000000000110000200000000000000000000000000100000000000000001301026159100000010000000000010000100000000000001000000110000000000000001000301026160100000000000000001000000000001000000000000000000000000000100000000301026161101000000000000000010000000100000100011000000100000000000100000010",
    "301026162101000000000000000000000000200000000000000000001000100000000000000301026163100000000000000000000000000000000000000001000120000000100000000000301026164100100000000000000110000000100000000000000000100000001000000000000301026165100000000000000000000000000000000000000000000000000000000000000000301026166100000000001010000000000000000000000011000000000000000000001000000301026167110000000000000011000000000002000000000000100000000000000002000000301026168100000000000000000000000000000000000010000000000000000000000000001301026169100000000010000000000001000000001000000000000000010100000010000000301026170100000000000000100001000000000000000000000000000000000000000010000301026171100000000000000000000010001000000000000000001000010000000000000000301026172100000000000000000000000000000000000000000000000000000000000000100301026173120000100000000000000000000000100000000000000000000000000000000000301026174100000000000000000000001000000000000000000000000000000000000000000301026175101000000000000000000001000000000000000000000000000000000000000000301026176110000000000000000000000000000000000010000000000000000000000000000301026177100000000000000000000100100000000000000002000000000000000000000000301026178100000000000000000000000010000000000000000000000100000000000000000301026179100000000000010000000000000000010000000000100100000000000100000000301026180100000000001000100010000000000001000000010010000000000110000000000301026181100000000000000000000000000000000011001000000100000000000000000001",
    "301026182100200000000000000000000101000012000000000000000000000000000000000301026183100000000000001000000001000000000000010000001001000000000000000101301026184101000000000001000001000000000000010000000000010000000000100001000301026185100000100000000001000000000000000000101000000000000000000000010000301026186100000000000100001000000000000000000000001010000000000000000001000301026187100000000000001000000001000000000100000000100000000000000000000000301026188100000000000000001000000000000000010002000000000000000000000001000301026189100000000010000000000000001100000000000000000000000000000000000000301026190100000000000000000000000000000000000100000000001000000000000000100301026191100000000000000100010000000000000000000000010000000000000000000000301026192100000000000001000000000000000000000010000000000010000000000000000301026193100000000000000000000000000000000010000000000000001000001000010100301026194100000000100000000000000000000000000000000000001000010000010000000301026195100100000000000000000010000000000000000000000000000000000000000000301026196100000000100000000000001000000000000101000000001000000000101000011301026197100000000001000010000000000010000000001000000000000000000000000000301026198100000000011000000000000000000000000000000000000000001000000000000301026199100000000100000000000100000000000001100000000010000000000000000000301026200100000000000000000000010000000000000000000020000000000100000000000301026201101010000000000001010010000000000000000000001000000000010100000000",
    "301026202100000000000000011000000000001000000000010000100000000000000000000301026203100000000000000010000000010000000000000000000000000001000000010120301026204100000000010000000000000100000001000000101010000000100010000000100301026205101000000000000000000000000000000000000000100000100000000100000000301026206100000000000000000010000000000000000000000000000000000000000000000301026207100001000000000000000000000000000000040000000000000000000000100100301026208100000000000000000000000000100100000000100000000000000000000010000301026209100000000100000000000100100000000000100000000000000000000000000000301026210100020000000100000000000000000000100000000000000000000000000000010301026211100000000000000000000000000010000000001000001100000101000000001000301026212100000000010000000001000000000000000000000000000000001000000001000301026213100000000000000100000000100000000001000000000000010000000000010000301026214100000000010000000000000000000000000000000000010000020000001000000301026215100000000000000000000000000000000000000000000000000000000000000010301026216100000000100001000010000100000000000001000100100100000000000000100301026217100000000000000000010000000000000000000000001000000000100000000000301026218100010000000010000000000000011000000000000000000010000000000010000301026219100000000000000000000000000000000000000000000000000000000000010000301026220100000000000000000000000000000000000000000000000000000010000000010301026221100000000000000100000001000001000001000110000100000000000000000000",
    "301026222100000010000000000000100000000000010000000000000000000000000000000301026223100010000000000100000000000100000000000000000000000000000000000000301026224100000000000000000000000000000000000000000000000000000000000000000301026225100000000000001001000000000000000000000000000000000000000000000000301026226100000010000000001000000000000000000000000000000000000001000000010301026227100000000000000000000000000000000000000000000000000010000000000000301026228100000101000000000000200101000001000000000000000001000000000000000301026229100000000000000000010000000000000100000000000000100000000000010000301026230100000000100000000000000000000000000000100000000000000000100000010301026231101000000000000000000000000000100100000000000000000000000000000000301026232100000001000000000000000000010001000000000000000000000010000000000301026233100000000000000000000000000100000000000000001000100000100000001000301026234101000100000010000100000000100000100100000000000100000120000000000301026235100000000000010000000000000000000000000000000000000000000000000000301026236100000000000000000000000100000000000000000000001000000000000000000301026237100000000000000000000000000000001100000000000000100000000001000000301026238110000000000000001000000000000000010000000000010000000000000010000301026239100001000000000000000001000000000000000000000000000100001000000100301026240100000000000000000000010000000001000000000000000000000000000001010301026241100000000000000000010000000000000000000100000000000000000000000000",
    "301026242100000000000000000001000000000001000000000000000000000000000000110301026243100000000000000000000001000010000000001000000000000000000010000000301026244100000000000000000000000000010000010000000000000000000000000000100301026245100010020000000000000000000001000000000000000001000000000000001000301026246100000000000000000000000000000000000100000001000000000000000000000301026247100100000000000000000000000000000000000101000001000010000000000000301026248100010000000000001000000000000000000000000000000000100000000000000301026249100000000000000101000000000000010000000000001000000000000000000000301026250100000000000000000000000000020000000000002000000000000000000000000301026251100000000000000001000000000000000100000002000000000000000001000000301026252100000110000000100000000000000120000000000000000000000000000002000301026253100000100000010000100000100000000000010000000000000000000001100000301026254110000001000000000000000000000000000000000000000100010000002100000301026255100010000000000000010000000000000000000200000010000000001000000000301026256100000000000000101000000000000000010002000000000000000000001000000301026257100000000000000000000000000000100000000000000000000000000000000000301026258100000000000000000000000000000000000100000000000000000000100000000301026259100000000000000000000010000100100000000001000000010000000100000000301026260100000110000000000010000000000000000000000000000100000000000000000301026261100000010000000000100000000001000000010100000000000000000000000000",
    "301026262100000000100000000000000010000000000000000000000000000000000001000301026263100000010000000000000010000000001000000000000000110002020000000000301026264100010001000000000000000000000000000000000000000000000000000000000301026265100000000000001000000000000000000000000000000000000000000000000000301026266100000001000000000100000000000000000001000000000000000000000000000301026267100000000000000000000001000100100000000000100000100000000000001000301026268100000001100000000000000010000100000010000000001000000000000100000301026269100000000000001000000001000000000000000000000000000000000001000000301026270100000000000000000000001000010000000000000000000000010000010000000301026271100001000000000000000000000000000000000000000100000000000000000001301026272101000000000000000000000000000000000000000000000000000010000000000301026273100000000000000000000000000000010000000000000001000000000000000001301026274100001000000000000000200000000000000000000000000000000300000000000301026275100000000000010000000001000000000000000000001000000000000000001000301026276100000000000000000000000001000000000000000000000010000000000000010301026277100001000000000001000000000000000000000000000000000000000000000000301026278100000100000010000000000000000000000000000000000000000000000000001301026279100000010000000000000000000000000000000000000100010110000000000000301026280100100000000000000000000100000000000000000000000000001000000000000301026281100000000000000001010100000000001001002000001000000000010000000000",
    "301026282100000000000000000000000000010100000000000000000000000000100001000301026283100000000000000000000000010000000000000100010010012000100010000100301026284100000000000000100000000000000000000000000000000000000000100010000301026285100000000000000000000100000000000000000000010000000001000000001000301026286100000000000010000000000000000010000000000010000000000000000000110301026287100000000000000000000000000000010000000000000000000100000001000000301026288100000001000000110000000000000000000100000000000000100001000000000301026289100000000000000000000000000000000000000001000000000010010000000000301026290100000000000000000110000000001000000000000100000000010000000000000301026291100000002000000000000000000000002000000000000010000011000000000100301026292100001000000000000000000000001000000000000000000000000000000000000301026293100000000000001020000000000000000010000000000000000000000000001010301026294100000000000000001000010000000000000000000000000000000000000000000301026295100000000000000000020000000000000000000000101000000000000000001000301026296100001000000000000010000200000000000000000000000000200000000000000301026297100000000000000001000000000000000000000000000000000000001101000000301026298100000000000000000000000000000000000001000000000000000100000000000301026299100100000000100000000000100000000000000000000100000000000000001000301026300100000000000000001000001000000000010000000000000000000000000001000301026301100010001000000001000000000000000000000000000000000001000001000000",
    "301026302100000000000000000011000000000000000000000000000010000000000000000301026303100000000000000000000000010000000000000010000000000000000000001000301026304100000000000000000010000000000010000000000000021000000000000000000301026305100000000010001000000000000000000000000010000000001000001000000000301026306100000000000000000000000000000000100010000001000001000000000010000301026307100000000000000000000000000000000000000000000000000000000000000000301026308100000000000000000000000000000000000011000000000000010000100000000301026309120000000000000000000000000000000000000000000000000001000000000101301026310101000010000000000000000000000000000000001000000000000000000000010301026311100000000000100000000000000000000002010000000001000000100000010000301026312100000000000000000000000000000000000000000010000000000001001200000301026313100000000000000100000000000000000000000000002000000000000100000000301026314102000000100001000000000000000000000000000000000000010000000100000301026315110000000010000000000000000000000000000000000110000000000000000000301026316100000000000000000000000000000000000000000000000000001000000000000301026317100000000000000000000000000000000000000000000000001000000000000100301026318100000000000000002000000000000001000000000000000000000000000000010301026319100000000000000000000000010010000000000000000000000010110000000100301026320100002000000000000000100000010000000010000000000000000000000000100301026321110000000001000000000200000100001000000000010000010100000000000000",
    "301026322100000000000000000000000000000000000000000000000000000000000001000301026323100000010000000010000000000100000000001000000000000000000001000000301026324100000000000001000000000000000000000010000000000000000001000000000301026325100100000000000000000000000100000000000000000100000000001000000000301026326100000110000000000000000010001000000000000000000000000000000000000301026327100100000000000000010000000000000000000000001000000110000000000000301026328100000000000000000000000000000000100000000000000000010000000000000301026329100000010000000000000010000000010011000000000000000000000000100000301026330100001000001000002000000000001000000000000000000000000010200000000301026331100000000000000000100000000000000000000000000100000000000000000000301026332101000000001000002000000000000000001000000000000002200000000100000301026333100000000001000000000000000000000000100000001000000000000100000000301026334100010000000100000000000000100000000000000000000000000000000000000301026335100000000100000001000000010000000000000100000000000000000000000000301026336102010001000000000000001000000000000000000000000000000000000000001301026337100000000010000010000000000000000000100000000000000000000000000000301026338100000010000000000000000000000000000000000000000000000000000000000301026339100000000000000000000000000000000000100000000000000000000001000000301026340100000000000000000000000000000000000000000000000000000000010000000301026341100000000000000000000000000000000000000100000000000000000000100000",
    "301026342100000000000000001000000000000001000000020000100000000010000000110301026343100000000000000010000000000000000000000001000000000000000000000000301026344100000000000000000000000100000000000000000000000000101000000000000301026345100000000000010000000000000000000000001100001000000000000001000000301026346100010000000000000000000000000000000000000000000000000000000000000301026347100000100000000000001000000000011000010000000000000000000000000000301026348100000001000000000000000000000000000000000000000100000000000000100301026349100000000000000000000100000110000000000000000000000000000000000000301026350100001000000000010000000000000000000000000010000000000000000000000301026351110000000000010000000000010000000000000000000000000100000000000000301026352100000000000020001000000200000000000000000000000000000000000000000301026353100000000000000001001000000110000000000000001001000000010000000000301026354100001000000000000000010000000000000000000000000000000000110100000301026355100000000000001000000000000000000100000000000000100000000000000000301026356100000001000000000001000000000010000000000000000000000000000000010301026357100000000000000010000000000000000000000001000000001000010000000000301026358100100001000100000000000001000000000000000000000110000000000000000301026359101000100010000000010010001000000000000000000001100000000000000100301026360100001000100000000001000100000000000000000000000000000000111000000301026361100000000100000000000100000100000100000000000000000000101000000000",
    "301026362100000000000000010000000010000000000020000000000000000000000001000301026363110000000001000000100000001000000000000000000000001100000100000000301026364100000000000000000000000000000000000000000000000000000000000000000301026365100000000000001000001000001000000000000000010000000000010000000000301026366100000000010000000100000100000000000101000000000100000000000000000301026367100000000000000000000101000100000000000010001000000001000000000000301026368100010000000000000000000000000000000000000000000000010000000000000301026369100000000002000001000000010000000002000000000200001000000000100000301026370100000000000000000000000000000001000000000100010000000000000000000301026371100000000000000001000000000000000000000000000000000000000000000000301026372100000000000000000000000110000000100000000000000000000000000000000301026373100000000000000000000000000000000000000000000101000000300000000000301026374100120000000000101100000010101000000000000000000000000000000000000301026375100010000000000000000000000110000000000000000000000100000000001000301026376100001100000000000000000000000000001000000001000100000010000000000301026377100000000000000001010000001000000000000000000000000000000000001100301026378100000000000000000000000000000000100000001000110000000000000000000301026379100000000100000000000000000000000000000000000000000000000010000000301026380100000000000000100000000000000000001000000020000000000000000100000301026381100010000000010000000000001001000010000000000000000000000000001001",
    "301026382100010000101000000000000000000100000000000100000000000000000000000301026383100000000000000010000000000000000001000000000000000000000010000000301026384100000000000000000000000010000000001000000000000000000000000000100301026385110000000000000000001000000010000000000000010000000000000000000000301026386100000000100000000000000000000000000100000000000000000000000000000301026387101001001000000000000000000000000000000000000000002000010000000000301026388100000010000000000000000000100000000000010010000000000000000000000301026389100001020000000000000011000100000000100000200000000000000000000000301026390100000000000100000000010000000000000001000000000000001000000000000301026391100100000010000000000000000000010100000000000000000000000000000000301026392100000000000000000000000000000000000010000000000000000001000100000301026393100000002010101000000001000100000000100000000000000000000000000000301026394100000000000000000000000001001000000010000000000000000000000000000301026395100000000000100000000000000000100000000000000000000000000000101000301026396100000000000000000000000000000100100100100000002000000000001010000301026397100000000000000000000000000000000000000000000000000000001000000000301026398100000000000020000000000000000000000000000000000000000001000000000301026399100000000000000000000000000000000010010000000000100000000000000000301026400100010000200010000000000000000010000000000000000001000000000100000301026401100000000000000000000000000010000000000011100000000100000001000000",
    "301026402100000000000000000001000000000000000000000000100000010000000000000301026403100000000010000000000000000010000000000000000000000000100000000000301026404100000000000000000000100000000010000001000000000000000000000000000301026405100000000000000000000000100000000000000000000000000000010000000000301026406100000000000100000010000002000000000000000000000000000000000000000301026407100000000000000001001000100000000000000000000000000010000000000000301026408100010000000000000000001000100000000000100000010000000000000000000301026409100000000000000000011101000000000000100000000000000000000000010000301026410100000000000000000000000000000000000000100000000000000001000000000301026411100100000000000000020000000001000000000000000100000000000000010010301026412100000000100000000000000000000000000000000000100000000000000001000301026413100000000000000000000000000000000000000000000000000000000000000000301026414100000000000000010000000000000000000000000000000100000000000000001301026415100000000000000000000010000000000010000000000000000011000000010100301026416100000000000000000000000000001000000010000000000000000000101000000301026417100100000000000000000010100000000000000100000000000000000000100000301026418110000000000000000000001000000000000000010000000100000001001000000301026419100000000010003000001000000001100000000000001000001000000000000000301026420100000000000000000000000000000000000000000000000000000010000000000301026421100000000000000000000000000000000000000000000001000000000000000000",
    "301026422100000000000000000000001000000000000100000000000000000000010001000301026423102000100000000100000000001000001000001000000000000000000000000000301026424100000000000000000000000100000120010000000000000000000000000000000301026425110000100000001000000000000000000000000100000000000001000000100100301026426100000000000000000010000000100000000000000000000000000000000000000301026427100000000010000000000000000000000000000000001000000000000010100000301026428100000000010000001100000000000100000000000000000000000000000000000301026429100000000001000000000000000001100000100000000000000200110000000000301026430100000000000000000000000000000000010000000000000000000010000000100301026431100000000000000000000000000000100000000000000000001000002100000000301026432100000000000000000000000100000000000011000000000000000000000000000301026433100000000000000000101000100001000100000000000000000000000000000001301026434100100000000000000000001000000000000001000000000000000001000000000301026435100000001000000000000000000000000000200000001001010000000101000000301026436100000000000000000000010000000000000000000000000000000000000000000301026437100000000001000000001000000000001000000000000000000000000000001000301026438100000000000000000000000010000000000000000010000000000000000000000301026439100000000000010000000000000000000000000000000000000001000000000010301026440100000100000000000000000000000000000000000010000000000100000010000301026441100000000010100000000000000000000000000000000000001000000000000000",
    "301026442100010000000000000001000000000001000010001000110000100000001000000301026443100000100000000000000000000000000000000000000000020000020000000000301026444102001000000000000000000000000000000000100000000001000100000000000301026445100000000000000100000000000000000000000000000000000001000000000000301026446100000001000000001000000001000000000000000000000000000000000000010301026447100000000000000000010000000000000000000000000000001100000000200000301026448100021000000000000000000100000000000000000000000001000100000000000301026449110100000000000000010000000000000000000000000001000000000000000000301026450100000000000000000000000100000000000000000000000001000000000001200301026451100100000000000000000000000000000000000000010000001001000000002000301026452100000010000010000000000000001000000010000000000000000000000000000301026453100000000000000000000000000000000000000000000000000000000000000000301026454100000000000010000000000100000000010000000000000000000000000001000301026455101000000000000000000000000000000000000000000000000000000000000010301026456100000000000000000000000000000000000001000000000000000000010000000301026457100000000000000000100000000000000000000000000000000010000000000000301026458120000000010000000000001000000000000000000000000000000000000000001301026459100000001000000000000100100000000000000000000000100000100000010000301026460100000000100000000000000000000010000010010000000000010001000100000301026461110000000000200001000000000000000000000000000000000000000001000000",
    "301026462100000000000000000000000000000000000000000000000000000000000000000301026463100000000010000000120000000100000100000010010000100000000000000000301026464100000000000000000000000000000100000010000000000000000000000000000301026465100000100000000000010000000000000000000000000000000000000000001000301026466100000000000000000010000100010000000000000010000000000000000000000301026467101000000000000010000000000000000000000000100000100000000000000000301026468101000000000110010010000000000000000000000100000000100000001000000301026469100000000000000000000001000000000000000000000000000100000000000000301026470100000000000010000001000000010000000001000000000000000000000000000301026471100000000000000000000000000000000010000110000000000000000000000000301026472100000000000001000000000000000000010000000000000000000000002001000301026473100100000000000000000000000000000000000000000000000000000000001000301026474100000000000000000000000000000000000000000000000000000001000000000301026475100000000000000000000000000000001000001000000000000000000000000101301026476110200000000000000000000100000000100000000000000000000000000000000301026477100000000010000001000000000010100000000000000000000000000000000000301026478100010000000010000000000000000000000000000000000000000000000000000301026479100000000000000000100000000000000000000000000100010000000000000000301026480100000010000000000000000001000000000000000000000000001000000000100301026481100000000000000000000010100010000000000000000100001001001000010000",
    "301026482100100000000000000000000000000000000000000000000000000000000000000301026483110000000100000000000000001000000000000000000010000010000000000000301026484100000000000000000000000000000000000100110000000000000000000000100301026485100000000001000000010000000000000000000000000000000000000000000000301026486100100200000000000000000000000000010000000000010000000000000000000301026487100000000000001010000000000000000000000001000000000000000000000000301026488100100000000000000000000000010000000000000000000000000000000000000301026489100000000000000000000100000000000000000000000000000000000000000000301026490100000000000000000000000000001000000000000000000000000000000100000301026491100000000100000121000000000000000000000000100000000000000000000000301026492100000000000000000000001000011000000100000000000010000100000000000301026493100000000000110000000000000000000000000000100000000000000020010000301026494101000000000000001100000000000000000000000000000020000000000000000301026495110000001000000000000000000000000000000001000000000000000000000000301026496100000000000000000000000000000000000000000001000000000011000100000301026497100000000001000001010000010010100000000000000000000000000000000101301026498100100000000000000000000000000100000000000000000000001000000000000301026499100000000000000000000000000011000000000000000000000000000000000000301026500100000000000001000000000000000000000000000000000000000000000000000301026501100000000000000000000010000000000000000000000010000000000000000100",
    "301026502100000000100010000011000000000000000000000000010000000100000000000301026503100000000000000000000002000000000000000000000000010001000000010010301026504101000000000000000000000000000000000001000000000000000000000000000301026505100010000001000000000000000000101000001000000000000000110000000000301026506100000000000000000011000000000000000000000001000000000000000000010301026507100000000000000000000000010000000000000000100000000000000000000000301026508101000000000001000000000100000000000000000100000000000000000010000301026509100000000000000000100000000100000000000000000000000000000010001100301026510100001000000000000001000000000010000000010000100000000000000000000301026511100000000000100000000000000000000100000000000000000000000000000000301026512100000000000000000000000000000000000000001000001000000000000000000301026513100000000000000000100010010001000000000000000000000000000000000020301026514100000120000020000000100010000000000000000000000000000000000001000301026515100000000000101001000000000000000000100000000000010000100000010000301026516100000010000000000000000000000000001000000000000100100000001000000301026517100000000000001000000000100000001000000000000000000000010001000000301026518100000000000000000100000000100000000000000000000000000001000000010301026519100000000000000000000000000000100000000000000000100010000000000011301026520100000000000000000000000000000000000000000000001000000000000000000301026523100000001001000000000000000000000001200000000000000010000000000000",
    "301026524101000000000000000001000000000000000100000000000000000000000010000301026525100000000200000000000000000000000000000100000000000000001000001000301026526100001000000020000000000000000000000000000000000000000000100000000301026527101001000000000000000000000000000000000100000000000000000000000001301026528100000000100000000000000000000110000000000010010001010000010000000301026529100101000000000000000000100000000000000000000110000000000000000000301026530100000000000100000000000000000000010000100000000000000010001000000301026531110000000000000000020000000000000000000000000000001100000000000000301026532100000000000000000000000000000000000001000000000000000000000000000301026533100010000000000000100000000000000000000000000000000000000100101000301026534100000000000000000000000000000000000000000000000000000000000000000301026535110000000000000000000000000010000010000000100000000010001000000000301026536100000000000000000000000000010000000000000000000000000000000000000301026539100100000000000000000000000000000000000000010000000020100000000000301026540100000000010000000000000000000000000000000000000000000000000000000301026541100000010000010000010000001000000000000000000000100000000000000001301026542100000000000000000000010001000001000000001000000000000010000000000301026543100000000000000000000000000000000100000000000000001000000000000000301026544101000000000000000100000010000000000000100000000000000000000000000301026545111000100000000000000000000000000000000000000000100000000000000100",
    "301026546111000000000000010000000100100000100000000000000000000000000000000301026547100000000000000000000000000000000000000000000000000000000000000000301026548100000000000000000100000000000000000000000000000000000000000000000301026549100000000000000001000000000000000000000000000000000000100000000000301026550100000000100000100000100000000110000001000000000100000001000000000301026551100000000000000000000000000000000000000000000000000000000000000000301026552100100000000000000000100000000000000000000000000000010000000000000301026553100000000000000000000000000000000010001000100000100000000000000000301026554101000000000000001000000000000000000000000000000000010001000000010301026555110100100000000000100000000000000100000200100000000001000000000000301026556100000000000000000000000010000000001000000000000000000000000000000301026557100100000000010000100000000010001000000000000000000000000000000000301026558100100001000000020000000000000000000000000000000000000100000000000301026559100000000100000000100000000000010001000001010000100000010100000001301026560100000010000000000000000010000000000000000000010000000000000010000301026561100000000000001100100000000000000000000000000000000000001000010000301026562100000010000000000110000000000000000100000000000000100000000000000301026034100000000000000100100000000000000100000000000000000000000001000000301064081100000000010000000000010000000000000000000000100100000000010000000301064082100000000000000000000001000000001000000000000000000010000000000001",
    "301064083100000000000000000000000000000000010000000000000000000100000000100301064084100000000000000000000000000000000000000000000002000000000000000001301064085100000000000000000000000100000000000000000000101000000000000000000301064086100000000000100010000000010000010000000000000011000000000000000000301064087100000000000001010000000000000000000000000000000000000000010000100301064088100000100000000000000001000001000000000000000000000000000100000000301064089100000000000000000000000100000000000000000000000000000001000000000301064090100000000001000000000000000000000000000000100000000000100000000000301064091100000000000000000000000000000000000000000000000000000000000000000301064092101000000000000000000000000000000000000000000000000000000000000000301064093100000000000000000000000000000010000000001000000000000000000000000301064094100010000010000000000000000000000100000000000000000000000000000000301064095100000000000000000000000000000000110000000000000000000000000000020301064096100000000010100000000000000001000000000000100000000000000000001000301064097101000000000000000000000000000000000102000000000001101000000000001301064098100000000000000010000000000000000000000000010000000100001000000000301064099100000000000010000000100010000000000000000000000000000000000000000301064100100000000010000000000000000000000000001000000000000000000010000000301064101100010000010000000010100000000000000000010000000000000000000000000301064102110100000101000000000000000000000000000000000120000000000000000000",
    "301064103100000000000000010000000000001000000010000100000000000000000000000301064104100000000000000000100000000000000000000000000000000000000000000000301064105100000000000000000000300000010000010000000000000000010000000000000301064106100010000000000000000000000000000010000001010000000000000001000001301064107100111000000000000100000000000000000000000000000000000000000002000301064108100000002000000000000000000000000000000000000000000000000000000000301064109100000000000000000000000000000000000000002000010000000010000000000301064110100001000000000000010000000000000100000000000000001010000000010000301064111100000000001000000000000000000000000000000001000000100000000000120301064112100100100000000000010000000000000000000000000000000000000000000000301064113103000000000000000000000000000100000001000001000000000000000000000301064114100000000001000100001000001000000000000000000000000000000000000000301064115100000000000000000000000000000000000000000000000000000000000000000301064116100000000000000000000000100000000000010000000000000000000001000000301064117100000000000000000000010000011000010000000110101000000000100000000301064118100000001000000010000001000000000001000000100100000200000000000000301064119100100000000000011000100010000000000000000000010000100001200000000301064120100000000100100000000000000000001000000000000000000100000000000000301064121100000001000000100000001000000000000000000000010010000000000000000301064122100000000000010000000000000000000010000000000000000000010000100000",
    "301064123100000000000000000000000100100000000020010000010000000000000010000301064124100100000010000010100000000010000000100000000000000000000000000000301064125110000000000000100000000010001000000000001000000000000000100000011301064126100000000000010110000000002000000000000000000000000000010000000000301064127100010010000000000000000000000000000000000000000000000000000010000301064128100001000000000000000000000000000000000000000000000000000000000000301064129100000000000000000000000000000001000000000000100000000000000000001301064130100000001000000100010000000000001000000000000000000000000000000010301064131100000000000000000000000000000000001000000000000000000000000000000301064132100000000000000000000000000000000000000000000000000000000000000000301064133100000000000000000000000000000000010000000000100000000000000000000301064134100000000000000000010000000000000000000000000010000000000000000000301064135100000000000010000000000000000000000000000000001010000000002100001301064136100000000000000000000000000000010000000000000000000000000000000000301064137100000000000000000000000000000010000000000000000000000000100000000301064138100000000000000010000000020000000000000001000010010000000000100101301064139100000000000000000000000000001000000000010000100000000100001000000301064140100000100000000000000000000000010000100000000000000000000000000110301064141100100000000000000000001000100000000010000000000000000000000000101301064142111000000000000000010010000000000000000000000000000000011000001000",
    "301064143110010010000000101100000000000000000000001000000000000000000000000301064144100010000010000000000000000000000000000000000000000000000000000000301064145100000000000000000000001001000000000000000000000101000000000000000301064146100000000000001000000001000000001000000001000000000000000000010000301064147100000001100001000000000000000000000000001000000000100000000010000301064148100000000010000000000000000000000000000000000020000000010000000000301064149100000000000000000000001000000000000000000000000100010000000000000301064150100100000000000000000000000000000001000000000000000000000000000000301064151100001100000001000000000000000000000100000000000000010000000100000301064152100100000010000000000000000000000000101000000000100000000000020010301064153110000000000000000000000000000000000000000000000000000000000000100301064154100000000000000000000000000000000000001000000000000000000000000000301064155100000000100001000000000000000010000000000000000000000000000000000301064156100000000000000000000000000000000100010001011000000100101000000000301064157101000000000000010000000000000000000100000000000000000000000020001301064158110010000000000000000001000010000000000020000000000000000000000000301064159100100000000001000000000000000000000000000000000000000000000000000301064160100000000000000000000000000000000000000000000000000100000000000000301064161100000101000000000000000000010000000100000000000000001000000000000301064162101000000010000000000000000000000000100000000000000000001000010000",
    "301064163110000001000000100000000100100000000000000000000000000000000000000301064164100000000001000001000000000000000001000001010000000000000000000000301064165100000000010000000000100000000000000000000000000010010000000000000301064166100000000000000000000000000000000000000000000000000000000000000000301064167100000000000000000101010000000000000000000000000000100000000000000301064168100000000000000100010000000000000100000100000000000000000000000000301064169100000000200001000000000000010000000001000000101000000100000010000301064170100000000000000000000000000101000000000000000000000000000000000010301064171100000000000000000000000001000100000000000100000000000000000000000301064172100000000001010000000000000000001010000000000000000001000000000001301064173100000000001000000100000000000000000000000100000000000000000000000301064174110100000000000000020000000000000000000000000100000000000000000000301064175100000000010000000000201000000000000000000000010000000001000100000301064176100000000000000000000000001000000010010000000000000000010000000000301064177100000000000000000000000000002000000000000000000101000000000000000301064178100000000000000000000000001000000000000001000000000000000000000000301064179100000000000000000000000000001001000000000000000010000000001000000301064180100000000001000000000000000100000000000000000000000100000000000000301064181100100000000000001000001000010100000000000100000000000000000000000301064182100000001000000010001000000000001000000000100000000000000000000000",
    "301064183100001000000000000000002000001000001000000000000000020000000000000301064184100000000040000100000000000000000000000000000000000000000100000000301064185100000000000000000000000200000010000000000100000010000000000000000301064186100000000000000100110000000100000000000000000000001000000000000000301064187100100000000000000000100000000100000000000000000000100000000000000301064188100000000000000010000000000000000000000010000000001000001003000000301064189100000000000000000100000000000010000001000000000000010000000000001301064190100000001000000000000000000000000000010000000000000000000000000000301064191100000000010000000000000010000100000000001000000000300000300000000301064192100000000000000000000000000100000000000000000000000000000000000000301064193100010000000000000000000000000000000000000100000001000000000000000301064194100000001000000000000000000001000000000010000000000000100001000020301064195100000000000000000000000000000000000000010000000000000000000100000301064196100000000000000000000100010000001010001000100000000000000010000001301064197100010000000000000000011000000000000000000001001000000000000000000301064198100000000000000000000000100000000001000000000000000000000001000000301064199100000010000000000000000000100010000000000000000000000000010000000301064200100100000000000000000000000000000010000000000000000110000000000110301064201100000000100010000000000000000000000000000000000000100010001000001301064202100000000000000000000000001001000000000000100000000000000000000000",
    "301064203100000010000000000000100000000000001000000000000000000000000000000301064204100000101000000000001000000000000000000000100000000000000000000000301064205100000000000000000000000000010000000001000000000000000100000000000301064206100000000000000000000000000001000000000000000000000000000000000000301064207100000000000000000100000000000000000100010000000000000010000000000301064208101000000000000000010000000000000000000000000010000000000000000000301064209100000100000000000000000000000000000010000000010000000000000101000301064210100100000000000000000000100000001000001100000000000000010010000000301064211100000000000000000000002000000000000000000000000001000000000000000301064212100000000000000010100000000000000000000000000000000100000000000000301064213110010000010100000000010002101000000000000000000000000000000000000301064214100000002000000100000000000000011000000000000000001000000000000000301064215100000000100100000000000000000010000000000000000000000001000000000301064216100000000100000000000000000010000000010001000010000000000000101000301064217100000100010000000000000001000000000000000001010000000000000000000301064218100000000100010000000000000000000000000000100000000000000000000000301064219110000100000100000000000000000000100000000100000000000000000000000301064220100001000000100000000001000000000000000000011000000000000010000000301064221100000000000000000200000000000000000000000000001000000000000100000301064222100000000000000000000000000001000000000000000000000000000000001000",
    "301064223100000010000000000000000000000010100000110000000000000100000100100301064224100000100000000000000100000100000000001000000000001000000000000000301064225100000001000000000100000000000101000000000000000000011000000300000301064226110000000000002100000000000000000000000000000100000000000000001000301064227100000001000000010000100001000010000000000100000100000000000000000301064228100100010000000010000100100000000002000001000001000000000000000000301064229100000010000000000000001010000100000000000000100001000000001000000301064230100000000000100000000100000000000000000010000001100000001000000000301064231100000001000000000000000000000000000000000000000100000000000000001301064232100000000100000000100000000000000000000100000000000000010000000100301064233100000000000000000000000000000000000000000000000000000000000000000301064234100000000000000000000000000000000000000000001000000000000000000000301064235101000000000000100000000001010000000000100010000000000000000100000301064236100100000100000000000000011000010000000000000000000001000000000000301064237100001000000000000000200000000000000000000000000000000100000000000301064238110000000000000000000000000000000010100000000000010000000000000001301064239100000000000000000000000100000000000000000000100000000001000001000301064240100000000000000000000000000001000000010000000000100010000000000000301064241110000000000000000000000000000000000100000000000000000000000000000301064242100000000100000000000000000000000000000000100000000000001000000000",
    "301064243110000000000000000000000001100000010000000000000000000000000000000301064244100000000000000000100000000000000000000000000000010000000000000000301064245100000000000000000000000000000000010000100000000000000000010000000301064246100000000101001000000000000010000000000000000000000100000000000000301064247100000000000000001000000000000000001100000000000020000000000000000301064248100000000000000000000000000000000000000010010000000000010000000000301064249110000110010001000000000000110100100000000000000000000000000000000301064250100000000000000000001000000000000000001010000000000000100000000100301064251100000000000000000000000000000001000000001000001000000000000000000301064252100000010000000000001000000001000000000000000000000000000010000000301064253100000010000000000000000000000000000000000000000000000000001000000301064254100000000010000000000000000000000010000010000000000000000001000000301064255101000000000000000001000010000000000000000000001000000000000000100301064256100000000000000000000000000000000000000000000000000000000000000000301064257100002000000000000000001000000000000000000100000000000000000000000301064258100000000000000000100000000000000000000100000000000100000000000010301064259100000001000010000000000000000010000000000100000000000000010000000301064260100000100000000000000000000000100001000000000000000110000000000000301064261100010000000000000000000000000000000000000000000000000000000000000301064262100000000000000000000000000000000000000000010000000000010000000000",
    "301064263100000000000000000000000000000000000001000000000010000000000000000301064264100000100000000000000000100000000000000001000000000000000000000000301064265100000000010000000000100000001000000000000000001000000000000002001301064266100000000000000100000000000000000001000001000000000000000000000000301064267100000000020010000100000000000000010000001001000000000000000210100301064268100000000000000000000000010100000000001000000100000000000000000000301064269100000001000100010000000000001000000001100000000100000000000000010301064270100000000000000000000010000000001000000000000010000010001000000000301064271100010000000000000000000001001100001000000000000000000000020000000301064272101000100000000000000000000000000001000000000000000000000000000000301064273110000000100000000100000000000000000000000000000000000100000000000301064274100000000000020000000000000000000001000100000000000000000000000000301064275100000000000000000000000000000010010000000000000000010000001000000301064276100000000000000000000001000100000000000000000000000000000000000010301064277100000000000000010000000000000000000001000001000000000000000200000301064278101000000000000000001010000000000000000000000000000000000000000010301064279100000000000000000000000000000001000000000000000001000000000000000301064280100000000000010001000000000000000000100000000000000000000000000000301064281100000000000000000000000001000100000001000000000000000000000000000301064282100000000000000000000000000000000000001000000000000000000010000000",
    "301064283100000000000000000010000000010000001000000000100000001100000000000301064284100000000010000000001000000000001000000000000000000000000000000000301064285100000000000000000000000000000000010000000000000010000100010000000301064286100000000000000000001000000000000000000000000100000000001000000000301064287101000000000000000001000000000000000000000000000010000000000000000301064288100000000100000000000000000000010100000000000000000000000001000000301064289100000000000000000000000000000000000001100000000000000000100100000301064290100000000000000100000000000001000010000100100000001001000000000000301064291100000000000000010000000100000000000000000000000000000002000000000301064292102000000000010000200000010000000000000101000000000000100000001000301064293110000000000010000000000001000010000000000000000000000000010000000301064294100000010000000000000001000000000000010000000003000100011000000000301064295100000000000000000000110000000000001010000000000000000000010000010301064296101100002000001001000000000000000000100001000000000000000000101000301064297100000000000110000000000000000100000000101010000000000000000000000301064298110000000000000000000000000000000000000000000000000010000000000000301064299100000000000000000000000000000000000000000010000000100100000000010301064300100000000000001000000000000000000000001000010000000000200000000020301064301100000000000000000000000000000000000000000000000000010000000000000301064302100000000000000000000000000000000100000000000000000000000000000000",
    "301064303100001000000000000000000000000000000000000000000000000100000000000301064304100000000000000000000000000000000000000000000000000000010000000000301064305100000010000000001000000000000000000000000010001000000000000000000301064306100010000100000001000000000000010010000100000000000000000000000000301064307100000000000000001002010000000000000000000000000100000000001000000301064308100000000000000000000000000000000000000000010001000000100000000000301064309100010000000000000000000000000000000000000000000000100000000000000301064310100000000000000000000000000000000000000000000000100000000000020100301064311100000100000000000000000000000000000000000000000000001000001000000301064312100000000000000010000000000000000000000000000010000000000000000000301064313100000000000000000000000000000000000000000100010010100000100000000301064314101000000000000000000000000000001000000000000000000000000000000000301064315110000100101010000100001000000000000000001010010000000000000000000301064316100000100000000000010000001000000000000000000000000000000000000000301064317100000000000000000001000000000010000000000000000000010000000000000301064318100000000110000010000000000000000000010000000000000000000000000000301064319100000000011000000001000000000000000000000000000000000000002010000301064320100000000000000000000000000100000000001000000000000200001000000000301064321100000001000000000100100000000000000000000000020010000000000100000301064322100000000000000001200010000100000001100000000001001000000000000000",
    "301064323100000000000000000000000000000000000001000000000010002000000000000301064324100001000000000100100000101001000000000000000000000000000000000000301064325100000000000000010000000000000000000001001000000200000000000000000301064326100000000000000000000001000000000000000000010000000000000000101000301064327100000000000000000001010000000000000000001000000000000000000000001301064328100001000001000000000000000000000000000000000000000000000110000010301064329100001000000001000000000000000000000000000000000001000100001000000301064330100000000000000100000010011000100000000000000000000000000000000000301064331100100001000000100000000100000000100002000010000000000000000000000301064332100000000100001000011000000000000100000000000000000000001000000000301064333100010000000001000000000000000000001000000001000000000000000000000301064334100000000000000000000000000000000000000000000001000000000000000000301064335100000010000000000000000000000000000000000000000000000000000000000301064336100000000100000000000000001000000000000000000100010000000000020000301064337100000000000000000000000000000000000000000000000000010000000010000301064338100000000002000000000001000000000000000000000000001000000000000000301064339110000000000000000000000000000000000000000000000001100000000000000301064340100000010000000000000000000000000000000000020000000000010000000000301064341100000000000000000000000000000000001000000000000000000000000000000301064342110000000200000000000000001000000000000000000000000000000010000000",
    "301064343110010000000000000001100000000000000000000100000000000000000000000301064344100000000001010000000000000000000000000000000000000000000000001000301064345100000000300100000000000000000000000000100000000000000100000000001301064346100000000000000000000000000000000000000000002000000000000001000000301064347100000000000000000000000001110000010000000010100000000000110000000301064348100000000000000010000000000001000010000000000000010000000110000000301064349100000100000010000000000000001000000100000000000100000000010000000301064350100000010000000010000000000000000010010000000000000000000001000000301064351100000000000000100010000000000000000000010000000001000001000000000301064352100000000000000000100100001000000100000000000100000100000010000000301064353100000100000000000100000000000000000000000000010000000000000000000301064354101000000000000000100100001000000000000000000010000000000000000000301064355100000000001000000001000020000000000000000010000000000000000000000301064356110000000000000000000000000010001000000000000000000000000000000000301064357100000000000000000000000000000000000000000100001001000001001000000301064358100000000001000000100000001000000000000000000000000000001000000000301064359100000000000000000000000000000000010000010000000010010000000000000301064360100000001000000000000000000000000001001000000000000000200000010000301064361100010010010000000000000000000000100000100000000001000110000000000301064362100000000100000000100000000010001000000001000000001001000000000000",
    "301064363101000000000000000101000000000000000100000000000200000000000000000301064364100000000000000000000000010000000000000000000000000000000000000000301064365100000000000000001000000000000100000000100001000000000000000000000301064366100000000000000000000000000100012001000000000000010000001001000000301064367100000000000000000020000000000000000000000000000000010010000000000301064368110000000200000100000000001000000000000000000000000100000010000000301064369100000000001000001000000001000000000010000000001100000100000000100301064370100000000000000000000000000000000000000000000000000010000000000000301064371100000100000000001000000000000000000000000000000000000000000000000301064372100000000100000000000000000000000000000010000100000000000010000000301064373100000100000000100200000000000000000000000000001000200000000000000301064374100000000000001010000000000000100000000000000000000000000000000000301064375100000010000000000000000000000000000000010000000000000000000000000301064376100001000000100000000000000000000000000000010000000000000000000000301064377100000000000000000000000010000000000000010000001000001000001000000301064378100000000000000100000000000000000000100000010000000100000000000000301064379100000000000000000000000000000010100001000001100000000000010000000301064380101000000000000000000000000000000000000000000000000000000000000000301064381100000000100000000000000000001000000000000000000000000002000000001301064382100000000100000010200000000000000000000100001000000000000000000100",
    "301064383110000020000001000000000000000000000000000000000001010100000000000301064384100000000100000000000000000000000000000000100000000000000000000000301064385100000000000000000000000000000000000000000000000010000000000000000301064386100000000000000000000000000100001100000000000000000010001000000000301064387100000000000000001000000000000000000000000000000000010000000001000301064388100000000000000010100000000010001000000000000000000001000000000000301064389100010001000000000000000000000000010000000000000000000000000100000301064390100000000000100000000000000000000000000000000000000000010000000100301064391100000010000001000000000010000000000000000000010000000000000000100301064392100000000100000000000000110000000000200100000001000001000000000000301064393100000000000000000000001000001000000000000000001000000100000010010301064394100000010010000000000000000000000000000000000000000000000000000000301064395100000000000000000000000000000000000100000000000000000000000000000301064396100000000001000000100001000000000000000000001000000000000000000000301064397100001001000000000100000000000000000000000000000000000000000000000301064398100000000000000000000000000000000000000010000010010000000001000000301064399100001000000000000000000000000000000000100000000010000000000000000301064400100000100000000100000000000000000000000001000000000000000000000001301064401101000010000000000000000000000000000000000000000000000000000100000301064402100000002000000020000000100000000000000000000000010001000000000000",
    "301064403100000000000000000000000000000000000000000000000000001000000000000301064404100000000000001000300110010001100000000000000000000000000100000000301064405100000000000010000000000000000000000000100010010000000000000000010301064406101000000001000000000000000000000000000000000010000000000001002000301064407100000001001000000000002000100000000000000000010000000000000000000301064408100001000000000000000000000000000000000000000000100000000000010000301064409110000000000000001000000000000000000000000000000000000000000000010301064410100000010000000000000000000000002000100000010100000000000000000000301064411100000110001000000000001010000100000000000010000000000000000000001301064412110010000000000000010000000000000001000000000000000000000000000000301064413100000000000000000000000000001000000000000000000000000000000000000301064414100000000000000000000001000001010001000000010000000000000000000000301064415101000000000000000000000000000000010010000001110000000000000000000301064416100000000000000000000000100000000000001001000000000010000000001000301064417100000000000000000000000000000000000000000000000000000000000000001301064418100000000000000000000200000001000000000000000000000000000000000100301064419100000000000001100100000000100000000000000000000000100000001000100301064420100000100000001000000000000000000000000100000000000100000100000000301064421100000000000001001000000000000000000000000000000100000000000000000301064422100000000000000000000000000000000000001000000000000000000000001001",
    "301064423101000000000010100000000000001000000001000000000000000000000000000301064424110000000001000001000000100000000000110000000000000100010000000000301064425100020000101000000000000000000000000000001100000000100000100000000301064426100000000000000000000000000000000000000000000000000000000000000100301064427100001000010000000000000000010000000100000000000000000000020000010301064428100000002000000000000000000100000000000000000000000000000010000000301064429100000000000000000000000000000000010000000001000000000000000002000301064430100000000000000000000100000000000000000000000100000000000000000000301064431100000000000000010000000000000000000000020100000000000000200001000301064432110000000000000000000000000000000100000000000002000000000000000000301064433100000000000000000000000000000000000000000000000000000000000000000301064434100000000000000000000000000000000000000000000000000000000010010000301064435100000000000000000000000000000000100000000001000000000000010000000301064436100000000000000000000000000000000000000000000001000000000000100000301064437100000000001000000001000001000100100000000000000000000000110000000301064438100102000000000000000000000000000000000000000000000000010000000000301064439100000200100000010000000000000000000000000000000000010000000000000301064440100000000000000000000000000000000000000000000000000000000100001000301064441100000000000000000000000000000000010000000000000002000000000100000301064442100000000000001100000000000000000000000000000000000000000000000110",
    "301064443100000000000000100000000000100010000000000000000000000000000000001301064444100000000100000000000000000000000001000000001002000000000000000010301064445100000100000000000000000000000000000100000000000000000000000000010301064446100000000100000000200001000000000000000010000000000000100010000000301064447100000000000010000000111000000000001000000000000000000000000000100301064448100000001000010000000000000000000000000100000010000000000000000001301064449101001000000000000000010000000000000000000000000000000010000000000301064450100000000000000000000000000000000000000010000000000000000000000000301064451100000000000000001000000000001000000000000000002000000000000000001301064452100000000010010000000000000000000000100000000000000000000000000000301064453100001100000000010000000000000000001000010000000000000000000000000301064454100100000000000000000000000000000000000000000000000000000000000000301064455120000000000000000001000000001000000000100000000000000000000001000301064456100000000000100000000000000000000000000000001000000000000000000000301064457100000000000001010000000000000000000000000000001000000000010000000301064458101000000000000000000000010000000000100000000000000001000000000000301064459100000000000000000000000000000000000000100000000001100000000000000301064460100000000000000000000000000000000000000000000000000010000000000000301064461100000000200000010001000000000010000000001000000000000000000000000301064462100000000200000010000000100010000000000010000000000000000000010001",
    "301064463110010100000000010001000000010100000000001000100100000000000000000301064464100000000000000000000000000000000000000000000000000000000000000000301064465100100000000000000000000000000000000000000000000000000000000000010301064466100000000000000000000101000000000000000100100010000000000000000000301064467100000000002100000010000000000000000001000000000000000100000011000301064468100000000000000000000000000000100000000010000000000000000000000000301064469100000000000000000000000100000100000101000020000000000100000000000301064470100000000000000000010000000000000000000000000000000000000000000000301064471100000000000000000000000000000000000000000001000000010001000000000301064472100000000000000001000000100000000000000000000000000010000000000000301064473100000010000000000000000000000000000000000010000000000001000001000301064474100000000000000000000000001000000002000000000000000100000000000000301064475100000100000110010001000000020000000000000000000000000100000000000301064476100000000000000000000100000000000000000000200000000000000000000000301064477100000000000000100001000000000000000000000000000000001000000000000301064478100000000000000000000101001000000000000000000000000000000000000010301064479100000000000000000000000000100100000200000000000000000001000100000301064480100000000000001000000000000000000000000000000000000000000100000001301064481100030000000010000010000000000000000000000000010000000000000000000301064482100000000000000000000001000000000000010000000000000100100010000000",
    "301064483100000000000000001000000000001000000000000000000000000100001000000301064484130000000001000000000001010000000000000000000000110000000000000000301064485100000000000000000000000000000000000000000000000000000000100001000301064486101000000000000000000000010000000000000000000001000000000000000000301064487100000000000100000000000000000000000000000000000000000011100000000301064488100000000000010000000000000000100001000000000000000000000000000000301064489101000000000000000010100000000000000000000100001010000000000010000301064490100000000000000000000000210000000000010000010000000010000001000000301064491100000000100000000000001100000001000000000000000000000000000000000301064492100000000000000000000000000000200000000000001000100000000010010000301064493100100000000000000000000000001000000000100000000000000000000000000301064494100000002000000000000000000000000010000000000000000000000000000000301064495100000000000100000000000000000001000000100000000000000000000001000301064496110001000000000000000000000000000000000000000000000000000000000000301064497100000000000000000000000100000100001000010000000000010000000000000301064498100100000000100010000000000000000000000000000000000000000000001000301064499100000000000000000000020000000000000000000000000010000010000000000301064500100001000000000000000000000000000001000000000000000000000000100000301064501100000000000000010001100000000000001000000000000000000000000000000301064502100000010000000000010010000000000000000000010000002200000000000000",
    "301064503100000000000000001000000000000000100000000000000000000110001000000301064504100000000010000000200001100000000000100000000010000000000000001000301064505100100000000000000000000000000000010000000000000000000000000000000301064506100000000000010000000100000000000000000000002000000000000000000000301064507100000001001010000000000000000000000000000000101000000000000000011301064508100010001000011000000000000000000000000000100000000000000000000010301064509101000000021000000000000000000010000000000000000000000000000000000301064510100000100000001000000001001000000001000000000000002000001000000010301064511100000000000000000000000000001001000000000000000000000000000000000301064512100000000000000000000000000000000000000000000000000000000000000000301064513101000000010000000000100000100010000000000000000000000000000000000301064514100000001010000000000000000000000000000000001000000000000101100000301064515120000000000000000000100000000000000000000100000000000000000000000301064516100000000000010010000000000000000000000000000000000001000000000000301064517100010000000000000000000000000001000000010000000100100000000000001301064518100100000100000000000000000000000000000000000100000010001000000000301064519100000000000010000000100000000000000000000000010000000000100000000301064520100000002000000000000000010000000000000000010000000000000000001000301064523100000000100000000000100000000000000000000000000000000000001100000301064524100100000000000000100000000010000000000000000000000100000000000101",
    "301064525100000000010000000001000000000001000000000000000000000000000000000301064526100001100010000000100000000000000000100000000000000000000000000000301064527100000000000000000000000000000000000000100000100000010000000000000301064528100000010000000000000000000010000000000100000200000000000010000000301064529111000101000000000000100000000000000001000000000000000100000000000301064530100001000000000000000000000000000000000000001000000000000000000000301064531100000000000000000000000000001000000000000000010000001000000000010301064532100000000000000000000000000000000000000000020000000000000000000010301064533100000000100010000000000000000000000000000000000010000000000000001301064534100010010000000000000000000001000000000000000100000000010000010000301064535100000000000001000000100001010000000000000000000000000001000000000301064536110000000000000000000000000000001000000000200000110000000000010000301064539100000000000000000000000000010000000000010000000000000000000000000301064540100001000000001000000000000000000000000010000000000010001000100000301064541100000000000000000000000000000000000000100000010000000000000000000301064542100000010000000000000020000000000010010000000000000010001000000000301064543100000000001000000000000000000000000000000000000000010000000000000301064544100000000000001000000001000000000000100100000001000000000000010000301064545100000000000000000000000000000000000000000000000000001000000000001301064546120001000000000000000000000000000000001000000000000000000000010000",
    "301064547100010000000000000000001001000000000000100000000000000000000000010301064548100000000000000010010000000000000000000000000000000100000000000000301064549100000000000000000000000000001000000000000100000000000000000001000301064550100000000000000000000000000000010000000000000000000000100100000000301064551100000000100000001021000000010000000030000000000000000000000000000301064552100000000000000000010000100100000100000000000000000000010000000000301064553100000000000000000000000000000000000000000000000001010000000001010301064554100000000000000000000001010000000000000100000000000000101000000000301064555100000020000000000000100010001000100000000000010010010000000000000301064556100000000000000000001011001000000000000100000010000000000000000000301064557100000000000110000000000000000000000001000000000000001000000000000301064558100000000000000000000000000000000000011000000000000000000000100000301064559100000100000001000000000000000000000000000000000000000000000000000301064560100000000000000000000000000000000000000000000000000000000000001000301064561100000000010000000000000000000000000010000000000000000000000000000301064562100000000000000000000000000000000000000000000000000000000000000000301038081100000010001000000000000000000000000000000000000001001000000001000301038082100000000000001100000000000000000000000010000000000000000000000000301038083110000000000000000000000000000000000000000001000010001000000000001301038084100001000100000000000001000000000000000000010000000010000000000000",
    "301038085100000000000000000000000000000000010000000000000000000000000000000301038086100000000000000000000000000000000000000000000000010100000000000000301038087100000010000000000100000101000000000000000000000000000000000000000301038088100000000000000000000000000000000000000000001002000000000000000010301038089100001000010000000000000000000000010000100000010000001100000000001301038090100000000000100000000100000000000010000000000000000000000000000000301038091100010010000000000000000000000010000000000000000000000010000100000301038092100000000000000000000000000100000000000021000001000000000000000000301038093100000000000000000000110010000000000000000000001000000000000000000301038094101000000001000100000000000010000000000000000000000000000001000000301038095100000000000001000100000000000000010000000000000000000100000100000301038096100000000000000000000000000001000000001000101000000000000001000000301038097100100000001000000000010000000100000000000000000000000000010000000301038098100000000000000100000000000000000000000000001000030000000000000000301038099100000000000000000000000000100000000000001000000000000010000000000301038100100000000000000002000000010000000000000100000000000300000011000000301038101100000000001000100000100000000000000000000000000000000000100000000301038102100000000000000000000000000000000000100000001000000000000000000000301038103100100000000000000000000000000000000000000010000000010100000000000301038104100000000000000100000000000000001010001000000000000000000010000000",
    "301038105101100000000000000000000000000000000000000000000000001000000000000301038106100000000000000000000000000000100000000000000000110000000000100010301038107100000000000000001000000100000000000000000000000000000000000000000301038108100001000100000000000000110000000110000000000000000001000000000000301038109110001000000000000001000001000000000000000000000210000000000100000301038110100100001100000100000000000000000000000000000000000100000001000000301038111100000000000000000000000000000000000000010000000000000001001100000301038112100000000000001000000000000002010000001000010110000000000001001000301038113100000000000000000000000000000010000000010000000000100000000000000301038114100000001000000000000000000100000000000000000000000000000000000000301038115100000000000000000000000000000000000100000001000000000000001000010301038116100000000000000000000000000000010010010000000000000000000000000000301038117100000000000000000000000000000000000000000000001000000000000000000301038118100001000002011001000000000001000001000000000000001000000000000000301038119100000010001000000000000000000000000100100000000001000000000000000301038120100000000000000000000100000100001010101000000000000000000010000000301038121100000000000000100000000000000000000000000000000000100000000000000301038122100000100000000000000010000010000000000000000000000000000000000000301038123100000000100000000000000000000000000000000100000000000000001000010301038124100100000002000000000000000000000010000000000000000100000000000000",
    "301038125100010010000000000001000000000000000000000000000000000000100000000301038126100000000000000000010000000010000000010000000000000000000000000100301038127100000000000000000000100020000000000000000000000000000000100000000301038128100000000000000000000000000000000010000000000000000000000001000000301038129100000000000001000000000000001000000000000000000000000101000000000301038130100000000011000000001000010000000000000000000000000000000000000000301038131100000000000001100000000000000010000000000000000100000000000000001301038132100000000000020000000000000100000000000100000100010000000000000000301038133100000000000000000000000001000000000000000000010000000000000000000301038134100000000000000000000000000000000000010010001010100000000000010001301038135100001000000000000000000000000000000000000000000000000100000000001301038136100000000000000000000000000000000010000000100000000001000000000000301038137100001010000000000000000000000001000000000000000000001020001000000301038138100000001000000000000000000001000000000110000000010001000001000000301038139111000001000000100000000000000000100000001000100001000000000000000301038140100000000001000000000000000100000000000000001000010000000000000000301038141100000000000000000100010000000000000000000000000000000000000000000301038142100000000000000110000000100000000000000000000000000000000101001000301038143100000000000000000000010000000000000000000000000000000000000000000301038144100110000000000000000000000000000000000000000000000000000000000000",
    "301038145100000000000000000000000001000000000000000000000100000000000000000301038146100000000000000000010000001000000000000000000100010000000000100000301038147100000000000000000000000000000000000000002000000000000000110000000301038148100000010000000000000000000001000000000000000000000000000000100000301038149100000000000000000000000000010000000000000000100000000100100000000301038150100000010010000000000000000000000000000000000000001000000000000000301038151100000000000000000000000100000000000010010000002000000000000000100301038152100000010000000000000020000100100000000000000100000000000000010000301038153100000010000000010000000000000000000001000000000001000000000000000301038154100000001000000000000000000000000000000000000000000000000000000000301038155100000000000000000000000010000000100000000000001000000000000000000301038156100000000000000000000000000101000000000000010000000000010000000000301038157100010010000100000000000000000000000000000000000000000000000000000301038158100000000000000000000000010100000000000000000000000000000000000001301038159100001000000011000000000000000000000100000000000000000000000000000301038160100000000010100100000000000000001100000000000000000000000100000000301038161100001000000000000000000010000000000000010001001000100011000000001301038162100000000000000000000000001001000000000000100000000000000000000000301038163100000000000100000000020000000100000000000000001000000000000001000301038164100000000000000010010000000000000000001010010000000000000000001000",
    "301038165100000000000000000000000001000000000000000100000000000000000000100301038166100010000000010000000000000000000000000000000000000000200000100001301038167100000100000000000010000000000000021000000000010000001000100000000301038168100100000000000000000000000000001001000100000000000000000000000000301038169101000000000001001000000000000000000000000000000000000000000000000301038170120000100000000000000000000001000000000000000000010000100000000000301038171100000000000000000000000000000000000000001000000000000010000000000301038172101000001000010000101010001000100000000000000000000000000010000000301038173101000000000000001000000100000000000000000000000000010000000000001301038174100000000000001000000000000000000100000000000000000000001000100000301038175100000000001100000000000000000000001100000000000000000000000001000301038176100000000000000000000100001010000000000000000001000001000000000000301038177100000000000000000000000000200000000000000000000001000000001000000301038178100000000000000000000010000000000111000000100000000000010000000010301038179100000000000000000000000000000010000000000000000000000000000000000301038180100000000010000101001000000000000000000000000000001000000000000000301038181101000000000000100000000000000000000001000010001000000000000000000301038182100000010000000000000100000000000000000000001000000000000000000010301038183100000001000000100000000000000001010000100001000000000000010000000301038184100000000000000000010000000000010001000000000200000000000001000001",
    "301038185100000000000000000000000000000000000001001000000000000000010000110301038186100000000100000000000000000000000000000000000010001001000000000000301038187100000001000000000000000000000010000000000001000000000000000000000301038188100000000100100000000100000000000001000000100000000000000000000000301038189100000000000000000000000000000000000000000000000000000000000000001301038190100000000000010000000000000000000000000000000000000000111100000000301038191100000000010000000010000001000000010000000000000000000000200000000301038192100000000001000000000000000000000000000000010000000000000000000000301038193100000000000000000100001000000000001000000000000010100000000000000301038194100000000001000000010000000000001000000000000000000000000000000000301038195100000010000000000000000000000000000000000000000000010000000000000301038196100000000100000000100001000100000000000000020000000000000000000000301038197100000000000000000000000000000000002000010000000000000000010001000301038198100000000000000000000000000100000000000100000000000011000000000100301038199100000000001000000000000001110000000000000000000010000000000000000301038200100000000000001001000000000000002000000000100000000000000000100000301038201100000000000000000000000000000000000000000000000000001000000100000301038202100000000000000000000010000000000000000002100000000000000000000000301038203100010100000001000001000100000000000000001000000000000000000010000301038204100000100000000000000000001000000000000000000000000000000000100000",
    "301038205100000000000100000000000010000100000000000000000000001000000000000301038206100010000000000000000000000000000000000100000010000000000000000000301038207100001000000200000000000001000000000000001000000000000000000000000301038208100000000000100000000100000000000000000001000000000000000000000010301038209100000000000000000000100010000000000000000000000000010000000000011301038210100000000000000000000000010000000000000000000000000000000000010002301038211100000000000100000000000020000000000000000000000000000000010000000301038212100000000000000010000001000000000000100000001000000000000000010000301038213100100000000000000000001000000000000000000000000000000000000000000301038214100000000000000000000010000000000000000100000000000000000000000000301038215100000000000000000020000000000000000000000000000000000000000000000301038216100200000000000000000000000000100000000000000000000000000000000000301038217100010000000000000000000000010000000000001000100000000000000000000301038218100000000010000100010000000000010000000000000000000000000000000000301038219100000000001000001000000000000000000000000000000000000000001000010301038220100000000010010000000000000100000000000000000010000000000100000000301038221100000100000000000010000000001000000000001010000000000010000000000301038222100000000000000100000000000000000000000000000000000010000000000001301038223100000000000000000000000000000000000000000000010000000010100100000301038224100020000000020000000000000000000100000000000000000000000010000001",
    "301038225100000000000000000000000000000000000100000000000000000000000000000301038226101000000000001000000000110000100000001000000000000001100000000000301038227101000000001000000000000000000000000000000000000000000000010000000301038228100001100000000000000000000000000001000000000000000000000000000000301038229100000000000000000000000000000000000000001000000000000000001000000301038230100000010000000000000000001000000000000000001010000000000100000000301038231100000000000000000000100100010000010000000000000000000000000101000301038232100000000000000000000000000000000000000000000000100000000000001000301038233100000000000000100000000100000100000000000000000000010000000000000301038234100000000000000000000000000010000000000000001001200000000000000010301038235100000001000000000100000000000000010000000000000001000000000000000301038236100000010000000000200000000000100000000000001000001000000000000000301038237100000000010000000000010010001000000000000010000001000000020000100301038238100100000100000000000000000000000000000000000001000000000000000000301038239100000000000000010100010100000100000000000000100000000010000000000301038240100000000000000000000000000000000000000000000000000000000000001000301038241100000010000000000000011000000000000100000001000010000100000000000301038242100010000000101000000100000000000000001000000010000000010000000000301038243100001000000010000000000100000010000000000001000000000000000000000301038244100000100000000000000010100000000000000000000000001000000000000010",
    "301038245100000100101000000000010000000000000000010000000000000000000000000301038246100000000000000000000000000001000000000000000000000000000000000000301038247101000100000010000000000000000000000000000001000000000000000000000301038248100000000000000000000000000100000000000001000000010001000000000000301038249100000000000000000000000000000000000100000001000000000010000000001301038250100000000000000000000000000000000000000001000000000000000000000000301038251100000000111000101000000000000000010000000001000000000000000000000301038252100000000100000000000010000000000000000000010000000200000000000010301038253100000000000000000200000000001000000000000000000000000000000000000301038254100000000000000000000000100100000000000000000000000010000000010000301038255100000000000000000000010000001000000010000000000000000000000000000301038256100000000000000000000000000000000000000000000000110010001001000011301038257100000000000000000000000000000000000000000000000000000000000000000301038258100000000000000000000000000000000000000000000100000000000100000000301038259100000000100000000000001000000000000000000000000000000000000010000301038260100000000000000000000001000000000100000000000100000000000010001002301038261100000000000000000000000000000000000000000100000010100000000000000301038262100000000000000000000100000001000000010000000000000000000000001000301038263100000000000000000000000000000000000001000000000010001000000000000301038264100010000000000000000000000000000010000000000000001001000000000100",
    "301038265100000100000001010000001000000100000000100011010001000000000001100301038266100000000000001001000000000000000000000000000000000000001000000000301038267100000000010000001100000000000000000000000000000000000000000000000301038268100000000000000000000000000000101000000000000000000000001000000010301038269100000000000100010000000000000000000000100000000000001000000000000301038270100000000000000000000000000000000000000000000000000000000000001000301038271100000001000000000000000000000000001000000000000000000000001000001301038272100000000000000000000000000000010000000000000000000000000010000000301038273100000000000000000000000000000010000000000000000000000000000000000301038274100000000000000000000000000000100000010010000000000000000000000000301038275101000000000000100000000000000000000000000000000000000000000000010301038276100000000001000000000000000000000000000000000000000100100000000000301038277100000001000000000000000000000000000000000000000000100000000000000301038278100000000100000000000000000000000000100000000000000002000000000000301038279100000100000000000000100000000000000000000000000000000000000000000301038280100000000000000000000100000000000000000000000000000000000000000000301038281100000000000000000000000020000000001000000000000000000000000000000301038282100000000000000000000000000010000000000000000000000000000100100000301038283101000000000000010000000000000000010000000000000000000000100000000301038284100000000000000001010000000000000000000000001000000010000000001000",
    "301038285100000000001100000000010000000001010000000000000000000010000000000301038286100000000000000000000000000100001000000000000000000100000000000000301038287100000000000000000000000000000000000010000000000000000001010000000301038288100000000000000000000000000000010000000000000000000000001010000010301038289100000000000000000010000000000000001000000001000000000000000000010301038290100000000000000000000000000000000000000001000000000000000010000010301038291100000000000000000000000000000000000000000010000000000000000000000301038292100000000000000000000000000000000003000000000000000000000010100000301038293100000000000000000000000000001000000000000000000100000001000000000301038294100000100000000000000010000000100001000000010003000101000000000000301038295120000000000000000000000000000000000000000000000000000002000000000301038296100000000110000000000100000001000000000000100000000000000000000000301038297100000000000000000000000000000000000000000000000000000000000001010301038298100000000000000000100001000000000000000010000000001000000000000000301038299100000000000000000000000000100000000001000000000100010000010000000301038300101000000010000000000000000000000000000000000000000000000000000100301038301100000000000000000000000000000100000000001000000010000000010000000301038302100000000000000000000000000000000000100000000000000000000000000001301038303100000000000000000000000010000000000000000000000000000000000000100301038304100000010000000000010000000000010000000000000010000010000100000000",
    "301038305100000000000000000000000010000000000001000000000000000000000000000301038306100000000000000000000100010000000100001000000000000100000000000001301038307100000000001001100000100000000000000000000000000000001000001001010301038308100000000000000000000001000000000001010000010000000000000000000000301038309100000000000001010000000000000000000000000000000000000000000000000301038310100001000000000000000010100000000001000000100010010000000000000000301038311100001000000000001000000001000000000000000000000000000001000000000301038312100000000010000000001000000100000000000000000100000000000000000000301038313100000000011000000000000000000000000000000000000000010000000000000301038314101000000000001010000000000000000000001000000000000000000000000000301038315100000000010000000000000010100000000010000000000000000000000100010301038316100000000000000000000000010000001010000000000000000010000000001000301038317100000000000000000010001101001000000010000000010100000000000000000301038318100000000000010000100010000100000000000000000000000000000000001000301038319101000000000011000000000100100000000000000000000000000001010000000301038320100000000010000000100000000100000000000000000000000010000000010000301038321100000000000000000000000000000000000002000000000000000000000000000301038322100000000000000000000000000000000000000000000001000000000000100000301038323100000000000000000010000000000000000001000000000000000000000010000301038324100000000100000000001000010000000000000000001000000000000000000001",
    "301038325100000010000000000000000000001000000000000000000000000000000000000301038326100000000000000000000000000010000000000000100000000000000000000010301038327100000000001000001000000000000000000000010000010000000000000000000301038328100000000000000200000000000000000000000000000000000001000100001000301038329100000000000000000000000000000000000000000000000000000000000000000301038330110100000000000000000000000000000010000000000100000000000000000000301038331110100001000100000000000000000000000100000000000000010000000000010301038332100100000000000000000000000000000000000000000000000000000000010000301038333100000000000100000000000000000000100011000001000000000000000000000301038334100000001000000000000100000000000000000000000000000000000000000000301038335100001000000000000000000000000000010000000000000000000000000001000301038336100000000000000100010000000100100000000000000001000000000000001000301038337100000000000000000000000000000000001001000001001000100000000000000301038338101000000000000000000000000000000000000000000000000000000000000000301038339100000100000000010000010000000000000000000000000010110010100000000301038340100000000000000000000000000000010100000000000000000000000000000000301038341101000000000000100001000000001001000000000000000000000000010000000301038342100100000000000000000000100000000000000000000000000000000000000000301038343100001010000000000000000000100000100000101000010000000010000000000301038344100000000000000000000000000010000000000010000100000000001000000000",
    "301038345100000000000010000000000001000000000000000001000000010000100000000301038346100010000000000000000000100000101000000000000000100000000000000000301038347101000000000000000010400000000000000000000000000000000000000000001301038348100000010000100010000000000000000000000000000020000000100000000000301038349100000000000000000100000010000000010000001000000000001000000010010301038350100000000000000000000000000000001000101000000000000000000000000010301038351100110100000000010000000000010000000000000000000000000100000000000301038352100000000000000000000000000000000010000000001000000000000000000000301038353100000000000000000000000000000000000100000000000000010000000000000301038354100000001000000000000001000000000001000001000000000000100000000000301038355100000000000001000100000000100000000000000000000000000000000000000301038356100000000000000000100000000000010010000000000000001012000000100000301038357100000000000001000000000000000000000000000000000000000000000000102301038358100000000100000000000000000000000000000000100000000000000000110000301038359100000000000010000000000000000000000000000010000000010000000000010301038360100000000000000001000000000000000000000000000000010000000000000001301038361110000000100000000000000000100000000000000000000010000000000000000301038362100000000000000000000000000000000001000000000000000000000000010000301038363100000000000001000000000000000000000000000000000000000000000000000301038364100000001000000000100000000300000000100000100000010000100010000000",
    "301038365100000001000000000000000000100000000000000000000001000000000000000301038366104002000000000100000000000000000100000010000000000000000000000000301038367100100000000000000000000000000000000000002000100000000000000000000301038368100000000000000000000000000000100000002000000000000000000000000000301038369100000000010000000000000000100000000000001000000000000000001000000301038370100000011000000000010000000000000000001000000000000000001000000000301038371100000000000000020000000000000000000001100000100001000000000000000301038372100000000000000100001001000000000001000000010000000000000000000010301038373100000001000000000000000100000000000000000000000000000000000000000301038374100000000000000001010010000000000000000000000000000000000000000000301038375100200000001000000100000000000000100000000000000000000000000000000301038376100010000000000000000000000000010000000000000001000100000000000000301038377110100000000000000000000000001000000000000000000000000000100000000301038378100000001000010000000000001000000000000000000000000000000000001000301038379100000010000000000000000000000000000100001000000000110001101000000301038380100000001000101000000000000000001000100000001000000000000000000000301038381100000000000000000000000000000000000000000000000000010000000000000301038382100000000000000010000000000000000000010000200000000001000101001000301038383100000000000000000100000000001000000000000100100000010000000000000301038384100000000000010000000000000000010000000000100010000000000100001000",
    "301038385100000000000010000000000000000000000000000000001000000000000000010301038386100000000001000000001000000000000000000020000000000000000000000000301038387100000000000000000000000001100000000000000000000000000001000000000301038388100000001010000000000000000000000000100000000010000000010000001010301038389101000000000000000000000010011000000000100000100000000000010000000301038390100000000000000000001000000000000000000000000000000010000000000000301038391100000000000000000000000000000001000000000000000000010010001011000301038392100000000000000100000000000000000000000000000000100000010001000000301038393100000000000000000100000000000000000010000000000100100101001000001301038394100000000001100100000000000000100000000000000000000010000010000000301038395100000000000000000000000000000000000000000000001000000000000000010301038396100000000100000010000000000000000010000000000000000000000000100000301038397100000000000010000000000000000000000000000001000000000000000000000301038398100000000000000001000000000000000010100010020100000000000000000100301038399100000011101000000001000000000000000000000000000010000000000010000301038400100000000000000010000000000000000000000000000000000010010000000000301038401100000000000001000000000000000000100000010000000000000000000000000301038402100000000000000000000000000000000000001000000000000000000000000100301038403100000000001001000100000000020000000010000000000000000000000000000301038404100200100000000000000000000000000000100000000000100000000000000010",
    "301038405100000010001000100001000100000000000000100000000000000100020000000301038406100010000000000000000000100000000000000000000100001000010000010000301038407100001100000000100001000000000000000000000000000000000001000000000301038408100000020000000000000000000000100000100000000200000100000000000000301038409100000000000000001000100000000000010001000000000010000000110110000301038410100000000000000000000000000000000000000000000000000000000001100001301038411100000100000000010000000120010000000000001000000000000000000000000301038412100000000000000000000000000210000000100010100000001000100000000000301038413100000000000000000000000000000000000001000000000000000100000000001301038414100001000000000001000000000000000100000000000000001000100000000000301038415100000000100100000010000000100100000000000100000000000000000000000301038416101000000000000000000000000000000000000000000000000200000000100000301038417100000000000001010001000000000000000001000000000000000000000000000301038418100000000100000000000001000000000000000010100000000000000000010000301038419100000000000000000000100000000000000000100000000000000001000000000301038420100010000100000001000000000000000000001101000000000100000000001010301038421100000000000000001000000000000000000000000000001000000000000000000301038422100000000000000000000000000000000000000000000100010000000001000000301038423110000000000001000000000000000000000000000000000000000000000000000301038424100000000100002000000011000000000000000100000000001001000000000000",
    "301038425101100000000000000000000000000000000000000000000001000000000000000301038426100100000100000000000000001000000000000000000000000000110010000000301038427100000000000000000002000000000000000000010000000000000000000000000301038428110000000110010000000000000000000000001000000000000000000000000000301038429100000000000000000000000000000100000000000000000000001000001000000301038430100000000010100000000000100000000000000000000000000001000000000100301038431100000000000000000000000000000000000000000000000000000000000011000301038432100000000000010000000000010000000000001001000000000120000100100000301038433100000000000000000000000000000000010000000000000000000000000000000301038434100110000000000100000000000000000010000000000000000110100001100000301038435100011000000000200000000000000000110000000000000000000000000000002301038436100000000000000000010000000000000000000000000000000000000100000000301038437100010000000000000000020000000100010000000000000000000000000100000301038438100000000000000000000000000000000000000000000000001000000000000000301038439100000000110000000000000001000000000000010000000000000000000000000301038440100000000000000000000000000000000000000000000010000000010000000000301038441100000000000000000200000000000000000001000000000000000000010000000301038442100000100000000000000100000000000000000000001000000001000000000000301038443100010000000000000001110000000200000000001001000000000000000000000301038444100000000000000100000000000000000000000000100001000000000000000000",
    "301038445100000010000000000000000100000000010000000100000000000000000000000301038446110000000000000000000000000000000000000000000000000000000000000000301038447100000000000020000000000000000000000000000000000000000100000000000301038448100000000000000000000020000000020010000000000000000000000001000000301038449101000000010000000000000000000000000010000000000000000000001000000301038450100000000000000100000000000000001000000010000000000000000000000000301038451100000000000000000000100000000000000000000000002000010000010000000301038452100000010001000000000000000000000000000000100001000000000000000000301038453100000000000000000000100000000000000000000000000000000000000000000301038454100000000000000000000000000000001000000000100000000100000000000000301038455100000000010000010000000000112010000000010000001000000000001000000301038456100000000000000000000000000000000000200000000000000000000000000000301038457110000000000000000000000000000100000000100200010000010010000100000301038458100001001000000000000010000100000000000000000000000100110000000000301038459100000000001000000000001011000000000100000001000000000000000000000301038460100001000002001000100100000100010000000000000000000000000000000000301038461100000000000000000000000000000000000010000000001000001000000000010301038462100000000000001000000000001000000000000000000000000000000000000000301038463100000000000000000000000000000100000001100000000000101000000010000301038464100010000000000000000100000000000000000000010000000000000000001000",
    "301038465100000000000000000010000000000000010000000000000000000000000000000301038466100011100000000000100000000000010000000010001000000010000000000000301038467100000100000000000000000000100100000000000000000000000001000000000301038468100000000000110000000000000000000000000000000000000000000000000000301038469100200000000000001000000100000100010010101000000000000000000000000301038470100010000000000000001000000000000000000000100010001000200000000000301038471111000000000000000000000000000000000000100100000000000000000000000301038472100000000000000000000000000000000000000010000100000000000001000000301038473101000000001000000000000000010000000000000010010000000000000200010301038474100000000100000000100020000001010000000000000000000000200000000000301038475100000000000000000000000000000000000000000000000001000001000110000301038476100000000000000100010010000000000000000000000000000000000000000000301038477100000000000000000000000000000000000000000000100000000000000000000301038478101000000000000100000001000101000010000000000000000000000000000000301038479100000000000000000010000000000000000000000000000000000000000000000301038480100101100000000000001000200000000000001000000000000001000000000000301038481100010000000000100001000000000000000110000000010010000000000000001301038482100000000000000000000000000000100010000000010000000000000000001000301038483100000000000000000000000000000000001000000000000000000000000012000301038484100000000000001000000000000000000000000000000000000000000000000001",
    "301038485100000100000010000000000000001000000000000000000000000000000000000301038486100000000000000001000000100100000000000000000000000000000000000000301038487100000000000000000000000000000000000000000100100000000000010000000301038488100000000000010000000001000000000000000000000000000000000000000000301038489100001000000000000000000000000000100000000000000000000000000000000301038490100000000000000000000000000000000000000010010100000000000000000000301038491100000000000000000000000000001000010000000000000000000000000000000301038492110000000000000000000000000000000000000000000010000000010000001000301038493100000000000000001000000000000000000100000000000000000000000000000301038494100000000000000000000000110000010000000000000000000100000000000000301038495100000000000000000000001000000000000000000000000000000010001000000301038496102000000000000000000000000000000000000000000000000000000100000000301038497100000000100000000000000000000000000000000000100000000000000000000301038498100000000001000000010000000010000100100000000000000000000000000000301038499100000000010010000000000000000001000100000010000020000000000000000301038500100000000000000000000000000000000000010000001000000000010000000000301038501100000000000000100000000000000000000000001000000000002000100010000301038502100100000000000010000000010000000000001000000000000000000000000010301038503100010000000101000000000000000000001000000000000000000100000000000301038504100000000000000100000000000000000100000000000000000000000000000000",
    "301038505100000000100101000000000000000000001000000000010000010000000000000301038506100000000000000000100000000000000000000000000000000000001000000000301038507100000000000010100000000000020000010000000000000000000000000000000301038508100001010000000010000000001000000000001000000000000000000000000000301038509100000000000000000000000001000100000000000001000002000000000010000301038510100000000000000000000000000001000000000000000000000100001000000000301038511100000000000000000001000000000000000000000000000000000000000000000301038512100000100000000100000000100000000000000000000000000000000000000000301038513100010000000000000100000011000000000000000000000000000000000000000301038514100000000000010000010020000000000000000000000010000000000100000000301038515100010000000000000000000000000000000000000000000000000000000000010301038516101000000000000000000000000000000000010000000000000000001000001000301038517100000001001000000000000000000100000000000000000001000000000100000301038518101000000000000010000000000200010100000000000000000000000010000000301038519100000001000000000000000000000000000000000000000100000000000000000301038520100010000000000000000000000010010100000000000000000000000000000010301038523110000000000000000000000100000100000000000010000000000001000000000301038524110100000000000100000011101000000000000000000000000000000000002000301038525100000000000000000010000000000000000011000000000000100010000000000301038526100001210000010000000000010100000000000000000000000000000000000000",
    "301038527101000000000000000000000000000000010000000000000000000100001000000301038528100000000000000000000000000000000000000000000000000000000000000000301038529100000000000001000100000000000000001000001000000000000000000000000301038530100000010000000000000000000000000000000000000000000000000001000000301038531100000000010002000000000000100000000010000000000000000000000000000301038532100000000000000000000000001000000000000000000000010010000000000000301038533100000000000100000000000000000000000000000000000001000000000000000301038534100000010000000000000101000000000010000100000001000000000000000010301038535100000000000000000000000000000001000000000000001000000000100000000301038536110000000000100010000000000000000100000100000000100000000002000000301038539101000100000000000000000000100000100000001000000000000000000000000301038540100100000010000001010000000000000000000000000000100000000000000000301038541100000000000000000000000000000000020000000000100000000001000000000301038542100000000000000000000100000010100000000000000001000000000100000010301038543101100000000000000100000000000000000000000000000000000010000000000301038544100000000000001010000001000000000000000000000000000000000100000000301038545100000100000001000000000000000000000000000000000000100001000000010301038546100000100000000000000000000000000000000000100100000000010000000000301038547100000001000000010000000010000000000000001001000000100000000000100301038548100000100000100000000000000000000000000000001000000000000000001000",
    "301038549100000000000000000000000000000001000000000100000000000000000000000301038550100000010000000000000000000100000010100000000000011000000000000000301038551100000000000000101000000000000001000001000000000000000000010000010301038552100000000000000000000000000000000000000000000000000010000000000000301038553100012000000000000000000000000000000010100000000000000000000000000301038554100000000000000000001200000000000000000000000000000000000000000000301038555100001100000000000000000000000001000000010000000000000000000000000301038556100010000000000000000100100000100000000001100010000001000000000000301038557100000000000000010000000000000000000000000000000010000000000000001301038558100000000000000000010000000000001000000000000000000000000000000000301038559100000000000000000000000010000000000000000002000000000000000000000301038560100000010000000000000000000000000000000000000000000010000100000000301038561100000001000000001000000102100000000000000000010001000000000000100301038562100000000000000000000000000010000010000000001000000000000000000000401026081100000000000100000100000000000000000000000010000000000000000000000401026082100000000000000000000001000000000000100000000000000000000001000000401026083100000000200000001000000000000000101000001000000000000000001100000401026084100110000000000000000000000000000000010000000000000100000000000000401026085100000100001010000000000000000000010000000010000000000000010000000401026086100000000010100000000000000000001000000000010000000000000000000000",
    "401026087100000000000000101000000010010000000000000000000000000000000000000401026088100000000000000000000010000001000000000000100000000110010000000100401026089100000100000000000000100000000000000000000001000000001000000000000401026090100200000000000000000001000000000000010000000000000101000000000000401026091100000000000000000000000000010010100000000000000000000000001000000401026092100000000000000000000000000000000000000000000000000000000000000000401026093100001000000000001100000000000000000000000000000000000012000200010401026094100000100000000000000000000000100000010000000000000000000010000000401026095100000000000000000001000000000000102000000000000000000100000000000401026096101001000000000000000000000000010000000000000000100000000000000000401026097100000000000000000000000010000000010000000010000000000010000000100401026098100000000000000000000000000000000000000000010000000000000000000000401026099100002000000000000000000000000000000000000000000000000000000000000401026100100000000010000000010010000000000000000000000000000000000000000000401026101100000000000100000000000000000000000000001010100000000000000000000401026102100000000000000000000001000000110000000000000000000030000000000010401026103100010000000001000100000000000000000000010000000000000001001000000401026104100000000000000100000100000000000000100000000000001000002000000010401026105100000000000000000000000000000000000000000000000000000000100000010401026106100000201010000000000000000000100000000000000000000000000000020100",
    "401026107100000000000001010000000000000000000000000020000000100000000000000401026108100000000000000100000000000010001000000000000000001000000000000001401026109100000000000000000000100100000000000000000000000010000000000000000401026110100000000000000000000000000000000000000000000000000000000000000000401026111100000000000000000000000000000001000000000000000000000000020000000401026112100010000000000000000000000000000000000000000001000000000000000000401026113100100000000000000000000000000000000000101000000000010000000000000401026114100000000000100000000000000000000002000000000010000000000000010000401026115100000000010000001000000000010100000000000001000000000000010000001401026116100000000000000000000000010000001000000000000000000000000000000000401026117100000000000000010000000000001000010000000000000000000000000000000401026118100000000100000001000000000000000000000000001000000100000010000000401026119100000000000000000000000001000000000000000000000000000001001000000401026120100000000000002000000000000010000000000001000001000000000010000010401026121100000100000000000000000000000000000000000000000000000000000000000401026122100000000000000000000000000000000000000000000101000000001000200100401026123100000000000000000001000000000000000000000100000100000000000000000401026124100000010000000010000000000000000001000000000000000001000010000000401026125100000000000000100000000000000001000000000010000000000000000000000401026126100000000000000000000000000000000000200000010000000000000000000000",
    "401026127100100000001010000000000000000000000000000000000000000000000000000401026128100000000000001000000000000000010000000000000010000000000000000000401026129100000000000100000000000000000000000000000000000001000000000000000401026130110000010000000000000000000000000000000010001000000001010000000000401026131101000000000010100100000000000000000000000000000000000100000100000401026132100000001001000000000000000000000000000002100011000000000000000000401026133100000000000000000000010000000000000000210000000000000000000000000401026134100000000000000000000000001000000000000000000000000000001000000000401026135100000000000000000000000001010000000000000000000010000000002000100401026136100000000000000000000000010000000001000000000000000000000001000000401026137100000000000000000000000000000000000000000100000100000000000000000401026138100000001000000000000000000000000000000000000000001000000010000000401026139100000000000000000000000000000000000000000001000000000000000000000401026140100000000000000000110001000000000000000000100000000000000000000000401026141100000000000000001000000001000000000000000000000000000000100000002401026142100000000000000000000000100000000000100001000000000101000000000000401026143101000000100000000000001000000000000000001001000000000000000000000401026144100000000000000000100010000000000000000010000001000000000000000000401026145100000000000000000000000000000000100000000000000100000000000000000401026146100000020000000000000000010000000000000000000000000000000000000001",
    "401026147100000000000000200000000000001000000000000000000000000000001000000401026148100000000001000000000000001000000000000200000010000000000000000000401026149100000000000000000100000000000000000000000000000000000000200000000401026150100000102000000000000000000000100000000000000100000000000000000000401026151100000000000000000000000000100000010000000000000000100000000000000401026152100000000001000000000000000000000000000000000000000100000001010000401026153100000000001000000000000001000000000000101100000001000000010000000401026154100000000000020000000000000000000010100000000000000010000000000000401026155100001000000000000000000000000000000000100000000000000000000100000401026156100000000000000010000000100000000001000000000000000100100100000000401026157100000000010100000000000000000000000000000100000000000000000000000401026158100000000000000000000000000000011000000001000000100000000000000000401026159100000000000000000000001000000000000000000000000001000000000010000401026160100000000000000000000000000000000000001000000000000000010000010000401026161100000000000000000001000000000000000000000000000000000000000101000401026162100100000000000000000000000000000000000000000000000000000000000000401026163100000111000000000000000000000001000000000000000000000100001000000401026164100000000000000000100000000000100000010010000000000002000000000000401026165100000001000000000001000000000001001000000000000010000000000000000401026166100000000000000000000000000001000000000010000000000000000000000000",
    "401026167100000000000000000000000000000000000000000100000000000000000000000401026168100000000000001000000000000001000100010000000000002000000000000000401026169100000000000000001000100000000000000100000000000000000000001000020401026170110000000000000000000000000000000000000000000000100100000100000000401026171100000100000000000000000000000000000000000001000000000000000010000401026172100000000000000000000000000001000001000000000001000000000000000000401026173100000000000000000000000001000000000000000000000000000000000000000401026174100000000000000000100000000000000000000000000000000000101000000000401026175100100000000000000000001110000000000000000000000010000011000000001401026176100000001000000000000000010000000000000000100000000100000000000000401026177100000000100000000000000000000000000000000000000000000001000000000401026178110000100020000000000000000000000000000000010100000000001000000000401026179100000001000000000000000001000000000000000000100000000000000100000401026180100000000000000000000100000000000000000000000000002000000000000000401026181100100000000002000000000000010000000000000000000010000000100000000401026182100100010000000000000000000000000000000000000000100000000000000000401026183100000000000000000010100000000000000000010000001000000000000000002401026184100001000100000001000000000100000000000000020000000000000000000100401026185100000000000000000000000000000000000000000000000000000100000000001401026186100010000000000000001000000002000000000000001000000010000000000000",
    "401026187100000010000000000100000000000000001000000000000001000000000000000401026188100000000000000010000000000000000000000000000000010001000010001000401026189100000000000000000000000000010000000000001001000000000000100000000401026190100000000000100000000000001000000011000010000000000000000010000002401026191100000000000000001000010000000000000000000000000000000000001000000401026192110000000010000000000000001030000000000000000110000000200000000000401026193100000000000001000000000000000000000000000010000000000000000200000401026194100000000000000010000000000000000000000100000001000000000010000000401026195100000000000000000000000000000100000000000000000000000000000000000401026196100000000000000001000000001000000001000000000001000000000010000000401026197100000000201000000000000000001000010000000000000000000020000000100401026198100000000000000100000000000011000000000000001000000000001000000000401026199100000000000000000000000000000000000000000000000000000000000000000401026200110100000000000000001000000000010000100000000000000000000100010100401026201100000000000000000000000000000000000000000000000000000001000000000401026202100010000010000000000000000000000100000000000001000000000000000000401026203100000100000000000000000010000100000000000000000000001000000000000401026204100100000000011000000000000100010000000000000000000000000000000000401026205100000000000001000010000000100000000010000000000000000000000000000401026206100000000000000000000000000010000000000000000000000000000000000002",
    "401026207100000000000000001100000000000000000000000000000000000000000000000401026208100000000000000000000000000010000000000000000000100000000000000000401026209100000000100000010000100000010000000000000000000000000000000001000401026210100000000000000000000000000000000000000000000000000000001000000000401026211100000000000000000000000010000000000001000000000000000000000000000401026212100000000100000001000000000000001000000000100001000100000000000000401026213100001000000000100000000000001000000000000000000000000000000000101401026214100000100000000000000000000000000000000000000000000000000000000000401026215100000000000000000001000000000101000101000000101000000000000000000401026216100000000100000100000000010000000000010000000000000000000010010000401026217100000011000000000000000000001000000000000000000000000001000000000401026218110002000000000000000000001000000000000000001000000000000000000000401026219100000000002000000000001000000001000000000000000000200000000000000401026220100000010000001000000000010010000000100000000000000000000000000000401026221100000000000000001000002100010000000001000000000000000000000000000401026222100001000000000000001000000000000001000001000000000000010000100001401026223101000000100000000002000000000000000000000000000000000000000000000401026224100000000000000100000000000000000000000000000000000000000010000000401026225101000000000000000100010000000100002000000000000000000000000000000401026226100100000100000000000000000000000000000000000000000000000000000010",
    "401026227100000002000000000000000000000000000000000000000001000000000000001401026228100000000000002000100000000100000100000000000100000000000000000100401026229100000001000000000000000000000000000000000000001010000000000000000401026230101000000000000000000000000000000000000000010010000000000000000100401026231100000001000000000000002000000000000000010010001000010000000000000401026232100000000000002001101200000000000000100000000000000000000000000000401026233101000000000000000000000001000000000000000000000000000002000000000401026234100000000000000000000000000000001000000000000001100000100000000000401026235100000000000000000001000000100000000000001000000000000010000000000401026236100000000000000000000000000000000000000000000001001000000000000000401026237100000000000000000000000000000000000000000000001000000000000000011401026238100000000000000000000000000000100000000000000000000100002000000000401026239100000000000000000100000010000000000000000010000000000000000100000401026240100000000000000000000000000000000000000000000000000000000000001000401026241100000000000000000000000000000100000000000000000000010000100010000401026242100000000000000000000100000000000000000000000000000000000000000000401026243100000200000000100000000000000000000000000000010000001000000000100401026244100000000000000000001000000000000001000000000000000000000000000010401026245100000000000000000110010000000000000000000010010000000000010000000401026246100100000000001000000000000000000000000000000000000000000000000000",
    "401026247100000000000000001000001001000000000000000001001001000000000000000401026248100000000000010000000000000000000000000000010000001000000000000000401026249100000000000001000001000000000001000000000000000000000000000000000401026250100010000000010001000000010000002000000000000000000100000000000000401026251100010000000000010000001100000000000000001000000000001000000000000401026252100000000000000000000000000100000000100000000000000000000000000010401026253100000200000000000000000000000000000000000001002000000000000000000401026254100000000100000000000000000000000001000000000000000000000010000000401026255100000000000000000000001000000000000000010000000000000000000001000401026256100000011111010000000000100000001000000000001000000000000000000000401026257100000010000000000010000000000000000001000000001100000000000000000401026258100000000000000000000000000100000000000000000000000001100001000000401026259100010000000000000000000010000000001000000000000000000001000010000401026260100000000000000000000000000000000000000000000000000000000000000000401026261100000000010000000000000000000000000000000000000000002000000000000401026262100000000000000100000000010000000000000000000000000000000000000000401026263100010100000000100000000000000000000100000000000000200000000000001401026264110010000000000000001000000001000000000000000000000000000000000000401026265100000000001000200000000010000000001000000000001010000000002000000401026266100000000010000000000000000000000000110000000000000000000000000000",
    "401026267100100011000000000000000000000000000000001010000000000000000000000401026268100000000000000000011000000000000000001000000000000000000000000000401026269100000000000000000000000000000000100000000000000000000000000000000401026270100000000000000000000000000000000000000010000001000100003000000000401026271100000000000000000000000000000000000000000000000000000000000000001401026272101000000000001000000000000100000000001000000000000000000000000000401026273100000000000000000001000000010000000000000000002100000001000000000401026274100000000000000000000100000000000000000000010000010000000100000000401026275100000000000000000000000000000000000000000000000000010000000000000401026276100000000000000000010000000001000000000000000000000000000000000000401026277100000000000000000000000000000100010002000002000000000100000100000401026278100000000000000000000000000000010001000000000000000000100100001001401026279100010000000000000001000000000000000000001000000001000000000000001401026280101010000000000000000000001000000000000000000010000000000000000000401026281100000000100000000000000000000000000000000000000000000000010000000401026282100100000001000000000000000000001000000110000000000000110000000000401026283100100000000000000000010002000011000000000000000000000000000000000401026284100000000000000000000000000000100000000000000000000000001000000000401026285100000000001100000001100000000000010000001000001000000000000000000401026286100100000000000000000000100100000000010000000000000000000010000000",
    "401026287100000000000000000000000000001000000000000000010100000000100000000401026288101000000000000000100000000000010000000000001000000000010000000000401026289100000000000000000000002000000000000001000000000000010000000000010401026290110000000000000000000010000000000000000000000100000100000000000100401026291100000000000001000000010000000000100000000000000000010000000000000401026292100000000000000000000100000000000000120000000000000000000000000000401026293100000000000000000000000000000000100000000100000000000000000000000401026294100000000000000000000010000000000000000000010000001000000000000000401026295100001000000000000000000100001000000000001000000000000010000000000401026296100000000000000100000000000000000000000000000000000000000000000000401026297100000000000000000001000000000000000000000000000000000000000000000401026298100000100000000000010001000000000100000000000000000000010000001100401026299100000000010000000000000000000000000000000000001000000001000000000401026300100000000000000000000000000000000000010000000000100000000000000010401026301100000000000001000000000000000100000000000000000000000000001000000401026302100000010010000000001000000001000000100000000000000000000000020000401026303100000000000100000001000000000000000000000000000000000000000010000401026304100001000100000000000100001000000000000100000000000000000000000000401026305101000000000000000001000000000000000010000000000000000000000000010401026306100000000000000000000000000000000000000000010000000000010000000001",
    "401026307110001000100000000000000100000010000000000010000000010000000000000401026308100000100000000000000000000000000000000000000001000000000010100000401026309100000000000000000001000000001001100000000020000100000000000000000401026310110000000000000000000100000000000000100000000001000000000000000000401026311100000101000000100000000000000000010000000000000000000000000000010401026312100000000000000000000010000000000000000000000001000100001000000010401026313100000001000000000000000000000001000001000000000000000000000000000401026314100000000000000000100000000000000000000000010000000000000000000000401026315100000000000000100000000000000000000000000001010000000100000011000401026316100100000000010000000000110000010000000000000000000000000000000000401026317100000000000001000000000000000000000000000000010000000010000001000401026318100000000030000000000100001000000000001000000000000000001000000000401026319100000001100000000000000000000000000000000000000000000010000000100401026320100000000001000000000000001000000000000000000000000000001000000000401026321100000000000000100000000000000000000000000010000000000000000000000401026322100000000000000000000000000000000000000000000000000000001000000000401026323100000000000000000000000000000000000010000000000100000000000100000401026324100000000000000100000000000000010001001000000000000001000000000000401026325100000000000000010000000000000010000100000011001000000000001000000401026326100010000000000000000001001000000000000000000000000000000000000011",
    "401026327110000000000000000000000000100000000000000000000000000000000000000401026328100000000000000000000000000000010000002010000001000000000000000000401026329100000000110000000000000000000000000000000000000000000110001000000401026330100000000100000000000000000000001000000000000001000000000000000000401026331100000000000000000000000000000000000000100000000000010000000000000401026332101000000000000000000000000000000000000000000000000000000020000000401026333110000000000000000001001001000000000000000000000000000011000100000401026334100000100000000000000000001000000000000100000000000000000000000000401026335100000000000001000100000000000000011000001000000000011000000100000401026336100100000000100000000000000000000000000000000100000000000000000000401026337100000000001000000001010000001000000000000000000000010000000000000401026338100000000000000000011000000000010000000000000000000001000000000000401026339100000000000000000000000000000000000000001000000100000000100000000401026340100000000000000000000000000000000000000010011100000000000000100000401026341100000000002000000000000000000000000000000000000000000100000000000401026342100000000000010000000000000000000000000000000010000000000000000000401026343100102000000000000000000000000000000000000000001110000000000100000401026344111000000001001000000000000000000001000000010000000000000010000000401026345100000000000000010110000000000000000000000000000000000000000000000401026346100000001000000000001100000000000000000100000000000000000010000010",
    "401026347100000000000000000000010100000000000000100000000000000000100000000401026348100000001000000000000000000000000000000010000000000000000000000000401026349100000000000000000000000001000000000000000200000000100000000000000401026350100000000000000000000000000000000000000010000010000000000000100000401026351100000000000100000000000000000001000000000110000000000000000000000401026352100100100000000000000000000000010010000000000000000100000000000000401026353100000010010000000000011001000000011000000000000000000001000000000401026354100000000001010000000001000000000000000100000000000000000000000000401026355100000000000000000000000000000001000010100000000000100000100000000401026356100001000000000000000000000000000000001000000000000000000000000000401026357100000000000001000000000000000000000000000000000000000000000000000401026358100000000000001000000000000000000000000000000000000010000000000002401026359100000000000000000000000100000000000000000000000000000000000000100401026360100000000000100000000000000000000000000010000000001002000000000000401026361100020000000000010000100000000000000000000000000001000000000000000401026362100000000000000000000000000000000000000000100001000000000000000000401026363100000000010000000000000000000000000000000000010010000000000000000401026364110000000000000000100000000000000000000021002000000000000000000000401026365100000000000000001000000000000100200000000000100000001001010100010401026366101010000000000000000000000000000000000001000000001000010000001000",
    "401026367100010000000000000000000002000000000000000000000000000100000000000401026368100000001000000000001000010000000000000000010000000010000000001000401026369100000000000000000000000000000100000000000000010000000000000000000401026370100010000000020000010000000000000011000000000000000000000100000000401026371100000000000000000000000000000000001000000000000000100000000010000401026372100000000000000000010000000000000000000000010000000000000100000020401026373110000000000000000000010000000001000000000000000000000000000000000401026374100000000001000000000000200000002000000000000000000000000000000000401026375100000000001000000100000001000000001000000000000100000000000000000401026376100100000000000000000000000000000000001010000000000000000000010000401026377100001000000100000000000000000000000000000000000000000000000110000401026378100000000000000010000010000000010010000000100000000000000000010000401026379110000001000000000000000010000000000000000000000000000000000000000401026380100000000000000000000000000000100000000001001001010000000000000000401026381100000000000000000000000000000022000002000000100000001000100000010401026382100000000000000000000000000010110000000000000000000000000000000000401026383100100000000000000000000001000000000000000000120000000000000000010401026384100000101000000000000000000000000000001020000000000000010000001000401026385100000000001000000000100000000000000000011000000000000000000000110401026386101000000001000000000000000000000000000000100000010000000020000000",
    "401026387100000000001000000000000000100000000000000000000000000000000000000401026388100000000000000000000000000000000000000000000000000000000010001000401026389100010000000000000000000000000000001000000000000000000000000000000401026390100000000001000000000000000000000000001000000000000000000000000000401026391100000000000000000000000000000000000000000010000001000000000100000401026392100000000000000000000100000000000000010010000000000001000000000000401026393100000000000000000001000000000000000000000000000000000000000000000401026394100000000000000010000000000000000000000000001000000000000000000010401026395100000000000000000000010000000000000000000000001000000000100000100401026396100000000010001001000000000000000010000000002000000000000000100010401026397100001000000000000000000000000000000000000000100000000000000000000401026398100000000000100000000000010000001000000000000000000000000000000000401026399100000000000010001010000000000000000000000000000020000000000000000401026400100000001000001000000000000001000000010000000000000000000001000000401026401101000100000000000100001000200000000000000000000000000000000020000401026402100000000010000000010020100000100000100100000000001000000100000000401026403100000010000000000000000000000000000000000000000000000000000000000401026404100010000010010000000000000000000001000100000000000000000000100000401026405100000000100000000000000000001000000000000000100000000000000000000401026406100100000000000001000000000000000000000000000000000000000010000000",
    "401026407100000000000000000000000000000000000000000000000100000110000000000401026408100000000000000000000000000000000000000000110000000000000101010000401026409101000001000001000000000000000000000001000100000000000000000000010401026410100000000000100000000001000000000001000100010000000000000000000000401026411110000000000000000001000000100000000000000000000000001000000000001401026412100100000000000000000000000000001000000001100000001000100000000010401026413100000000100001000000000000000000000001000000000000000100000000000401026414100000000000010000000000000010000000000000000000000000000100100000401026415100000000000010000000000000000001010000000000011001000000000000000401026416100000000000000000000001000000000000000000000000100001100010100100401026417100001010000002100010000000100000000000000000000000000000000000000401026418101000000000000000000000000000110000000000000010000000000000000000401026419100000000000000100010000000000000000001000000000000000000100010000401026420100000000000000000000000000000100000000000000000000000000000000000401026421100100000000010120000000010000000000000000000100010000000010000000401026422110001000100001000000000000000000000000000000000000001000000000100401026423100000000000000000000000000010000000001000000000000000000000000000401026424100000000000000000000000000000000100000002000000000000000100000000401026425101000000000000010000000000000011000000000000000000000000000000000401026426100000000010000000000000000000000000000000000000001010000000010000",
    "401026427100000100100010000000000001000000000000000000000000000000100000000401026428100001000000000000000000001000000000100000000000000000000000000001401026429100000000100010000000000001000000000000000000000000000100000000000401026430100000000000000000000001000000100000000000000000000000000000010000401026431100000000000000010000000000000000000001000000000000000000000000000401026432100000000000000000000100000010000000000000000100000000010000000000401026433100000000001000000010000000000000010000000000000000000000000000000401026434100000010000000010001000000000000000000001000001000000000000000000401026435100000000000010000000000000000000000000000000000010000000000000000401026436100000000001000000000000000000100000000000000000000000000000000011401026437100110000000010000000000000000000000000000000000000000000001100000401026438100000000000000000000000001000000010000000001000010000000111000000401026439110001100000000000000000000000000000000001000000000001000000000001401026440100000000000000000100000000000000000000000001000000000000000000000401026441100000000000000001000010100000000000000000000000000000000000000000401026442100000000000000000000000000000000000000000000010000000000000000000401026443100000000000000000000000002000000000000000000000010000000000000000401026444100000000000000000011000000001000000000000000000000000000000000000401026445101000000010001000000000000000000000000000000000010000000000000000401026446100010000000000000000001000000000100000000000000000000000000000000",
    "401026447100000100000000000010000100000001000000000000000000000000000000000401026448100000010000000000000000000100000000100000100000000000000000000000401026449100000000000000002000000000000000010000000000000010001001000000000401026450100000000000000000000000000000000001000000000000000000000000000000401026451100100100000000000000000000000000000000000000000000000000000000010401026452100000000001100000100000001000000000000000000000000000000000000000401026453101000000000000000000010000000000000000000000000000000000000100000401026454100000000000000000000000000000000000000000100000000000000000000000401026455100000001000000000000000000000000100000000000000000200000000000010401026456110100000100000000000010000000000000000000000000000000000000000020401026457100000000000000000001000010000000000000100000000000000000000000000401026458100000000000000000000000000001000000000000000100001000000010000000401026459100000000000000000000000001000000100000000000000000000000000000000401026460100000000000000000000100000000000100000001000000100000000000000000401026461100010000010002001000000000000000000000000001000000000001000000010401026462100000000100000000000000000000000000000000000000000000001010000000401026463100000000000000000000000000000000000000000000000000000000000000000401026464100000000000010000000000000001000010000000100001000000000001000000401026465100000000000000000000000000000000000000000000000000000000000000010401026466100000000000000000010001000000000000000000000001000000000000001000",
    "401026467100001000000000000000000011000100000000000100000010000000000000001401026468110100100000000000000000000010000000001000000000000000000000000000401026469100100000000000000000000000000000000000001000000000000000000000002401026470100000000000000010000000000000100000000000000000000000000000000000401026471100000000000001000000000010000000000000000000100000000001000000000401026472100000000000000200000000000000000000000010000010001100000000100000401026473100000000000000000000000000000000000000000100000000000000020000001401026474100000000000000010000000010000100000000000100000000010000000000100401026475101000000000000000000000000000010000000000100000001000000000000000401026476100000000000000000000000000000000000100000000000000000000000000100401026477100100200001000000000000000001000000000000000000000000001111000000401026478101000001000000001000000000000000000000000000000000001010000001000401026479100000000010000000000000000010000000000000000000002000010000000000401026480110000000000010001010000000000000000000000000001000000010100000000401026481100000000000000010000000000000000000000000000000000000000000000000401026482100000000000011000000000100000100000000000000000000000000000000001401026483100000000000000000000000000000000000000000000000000000000000000011401026484100000000000000000000000000000000000000000000001000000002000000000401026485100000010000000010000000100000000000000010000000001000000000000000401026486100000010000100000000000000000000000000000000000000000000010001000",
    "401026487100001000000000000000000001000000000010010000000000000000000000011401026488100000010000001000011000000001000000000000000000000000000000001000401026489100000000000000000000000000010000010000000000000000000000000001000401026490100010000000000000000000000000000000000000000000110020000000000000401026491100100000000000000000000010000000000000000100000001000000000000000401026492100000000000000000000000000100000000000000000000001000000000010100401026493100000000000100000000000100100000000000000000000000000000010000000401026494100000000000100000010000000000000000000000000000000000000000000020401026495100011000000000000000000000000001000000000000000000010000000000000401026496100000000000000000000000000000000000000000000000000000000100000000401026497100010000000100000000000100000000000100000000000000100000000100001401026498100000000000000000100010000000000000000001010000000000000000100000401026499100000000000000010000000000000000000000000000000000000000000000000401026500110000100000000000000000000000000000100000001000000000000000000000401026501110000000000001000000001000000000000000000000200000000000000000000401026502101000100000000000000000000000000000000000000000001000000000000010401026503100000000100000000010000000000000001000000000000000000000000000000401026504111010000000001000000000000000000000000000000000000000000000000000401026505100101010000000010010000000000001000000000000000000000000000000000401026506100000001000000000000000000000000001010000000000000000000000000000",
    "401026507100000000000000000000000000000000000000000000000000110000000000000401026508100000001000000100000000000000000000000000000000000000001000000000401026509100100000000200000001000000000110000000000000000000000000000000000401026510100000000010000000100000000000000100000000000000000000000000000000401026511100000000000000001000000000001000010000000000000000000001000000010401026512100000000010000000010000000000000000001000020000000000000000000000401026513120000000000010000000000001010000010000000000000000100000000100000401026514100000000000000000000000000000001000011000000000001000000100000000401026515110001000000000000000000000010000000000000010000000000000010001000401026516100000000000010000000000000100000001000000001000000000100000000000401026517100000100000000000100000000000000000001000000000000000000000000100401026518100000000000000001001000000000000000100001000000000100000000000001401026519100000000000000000000000000010002000000000000000000001000000000000401026520110000000000000000010000000000000000000000001000000000000000110000401026523100010100000000100000000000002000000000000000000200000000000000000401026524100001000000001000000000000000000000000000010000000000000000000010401026525100000000020000000000000000000000000000000000000000001000010000000401026526100000000100000100200000000010000000000000000000000000000000000000401026527100000000000000000000000000000000000000100000000001001000000010000401026528100000000000000000000000000010000000000000000000000000000010010000",
    "401026529100000000000000010000010000000100000000000000000000000100000000000401026530100000000000000000000000000000000000000000000000000000000010100000401026531100100000100000000000000000010000000000100000000000000000000000000401026532100001000000000000000000000000000000000000000000001000000000000000401026533100000000000000000002000010000000000000020100000000000000000000000401026534100000000000010000001000000010000000000000000100000000001000002000401026535100000100100000001000000000000100000000000100000000000200000000000401026536100000000000000100000000000000000020000000000000000000000000000100401026539100000100000000000000000000000000000000001000000000000000000000000401026540100000000000000000000000002000000000000000000000000001000000000000401026541100000010000000000000100000000000000010100000000000000001100100000401026542100000000000000000000000000010000000000000000000000000000000000000401026543100000000010000000000000000000000000000000000000000000000000010000401026544100000000100010000000000000000000000000000000000000000000000000100401026545100000000000000000000000000200000000000000000000000000000000100000401026546100000000000000000001000000000000000000000000000000000000000000000401026547100200020100000000000000000000100000001000000000001000010200000000401026548100000000000000000000000000000000001000000100000010000000000001000401026549100000000000000000000000000000000000000000010000000000000000000020401026550100100000001000000000100000000000000000001000000000000010000000000",
    "401026551100100000000000000000000010000000000000000000000010000000000000000401026552100000000000000000000000000100000001001000000000101000000000001000401026553100000010000000000000000000000000000000000000000000000000000100000401026554100000000100000000010001000000000000000000000010000000000000000000401026555100000000000000000000000101000100100000000000000000000000010000000401026556101000000000000100000000000000000000000010000100000000000000000000401026557100000000000010000100000001000000000000000000000000001000000000000401026558100000000000100000000000000200000000000000000000000000000011000000401026559100010000000000000000000000000010000000000000000000010001000010100401026560100000000000000000000000000000000000000000000000000000000000100000401026561100000000000000000000200000000000000000001000000010000000000000000401026562100000000000000000000000000000000000000000000010000011000010110200">>

RowWidth == 10 + Cardinality(KnownNonces)

RowsPerLine == Len(HeaderLines[1]) \div RowWidth

HeaderCount ==
  ((Len(HeaderLines) - 1) * RowsPerLine) + (Len(HeaderLines[Len(HeaderLines)]) \div RowWidth)

\* row r of HeaderLines
HeaderRow(r) ==
  SubSeq(HeaderLines[((r - 1) \div RowsPerLine) + 1],
         (((r - 1) % RowsPerLine) * RowWidth) + 1,
         (((r - 1) % RowsPerLine) + 1) * RowWidth)

\* the number written at the characters lo..hi of a line
Field(line, lo, hi) == ParseNat([k \in 1..((hi - lo) + 1) |-> SubSeq(line, (lo + k) - 1, (lo + k) - 1)])

\* text i of KnownTexts as atoms
RECURSIVE KnownText(_)
KnownText(i) ==
  LET line == KnownTexts[i]
      char(k) == SubSeq(line, k, k)
      inNumber(k) == \E j \in 1..3 : k > j /\ char(k - j) = "#"
      part(k) == IF inNumber(k) THEN <<>>
                 ELSE IF char(k) = "#" THEN Sha256Hex(KnownText(Field(line, k + 1, k + 3)))
                 ELSE IF char(k) \in DOMAIN Shorthand THEN <<Shorthand[char(k)]>>
                 ELSE <<char(k)>>
  IN  Concat([k \in 1..Len(line) |-> part(k)], 1, Len(line))

\* the digest of text i, the empty string for i = 0
KnownDigest(i) == IF i = 0 THEN <<>> ELSE Sha256Hex(KnownText(i))

\* "%d%s%s%s" of the Index, Timestamp, MerkleRoot and PreviousHash of a row
RowText(row) ==
  FormatInt(Field(row, 1, 1)) \o FormatTime(Field(row, 2, 3))
    \o KnownDigest(Field(row, 4, 6)) \o KnownDigest(Field(row, 7, 9))

\* the rows lo..hi of HeaderLines by their text
RECURSIVE HeaderRows(_, _)
HeaderRows(lo, hi) ==
  IF lo > hi THEN <<>>
  ELSE IF lo = hi THEN RowText(HeaderRow(lo)) :> HeaderRow(lo)
  ELSE HeaderRows(lo, (lo + hi) \div 2) @@ HeaderRows(((lo + hi) \div 2) + 1, hi)

KnownRows == HeaderRows(1, HeaderCount) @@ <<>>

KnownStems == DOMAIN KnownRows

\* the number of digits that precede the last k atoms of a text, plus k
RECURSIVE TrailingDigits(_, _)
TrailingDigits(text, k) ==
  IF k < Len(text) /\ text[Len(text) - k] \in DOMAIN DigitValues
  THEN TrailingDigits(text, k + 1)
  ELSE k

\* the digest s is the digest of a known header followed by "%d%d" of a
\* nonce in KnownNonces and of the header's difficulty, which are the last
\* k atoms before its closing bracket
IsKnown(s, k) ==
  /\ k >= 2
  /\ SubSeq(s, 2, Len(s) - (k + 1)) \in KnownStems
  /\ LET tail == FormatInt(Field(KnownRows[SubSeq(s, 2, Len(s) - (k + 1))], 10, 10))
         digits == SubSeq(s, Len(s) - k, Len(s) - (Len(tail) + 1))
     IN  /\ Len(tail) < k
         /\ SubSeq(s, Len(s) - Len(tail), Len(s) - 1) = tail
         /\ ParseNat(digits) \in KnownNonces
         /\ FormatInt(ParseNat(digits)) = digits

\* the count the table holds for the digest s
KnownZeros(s, k) ==
  LET row == KnownRows[SubSeq(s, 2, Len(s) - (k + 1))]
      nonce == ParseNat(SubSeq(s, Len(s) - k, (Len(s) - Len(FormatInt(Field(row, 10, 10)))) - 1))
  IN  Field(row, 11 + nonce, 11 + nonce)

\* The number of leading '0' characters of a string: strings.Repeat("0", n)
\* is a prefix of s exactly when this count is at least n.  The count is
\* taken on the characters of the string, for a digest on the 64 hex
\* characters of its SHA-256; the digest of a header in HeaderLines is
\* looked up instead of being computed again.
LeadingZeros(s) ==
  IF IsDigest(s) /\ IsKnown(s, TrailingDigits(s, 1) - 1)
  THEN KnownZeros(s, TrailingDigits(s, 1) - 1)
  ELSE CountLeadingZeros(TextBytes(s))

\* len(s) in characters: a hex digest has 64
StrLen(s) == IF IsDigest(s) THEN 64 ELSE Len(TextBytes(s))

----------------------------------------------------------------------------
(* Transactions (types.Transaction) and their signatures (package wallet). *)

EmptyString == <<>>

CoinbaseSignature == <<"coinbase">>

Tx(id, from, to, amount, fee, signature, timestamp) ==
  [ID |-> id, From |-> from, To |-> to, Amount |-> amount, Fee |-> fee,
   Signature |-> signature, Timestamp |-> timestamp]

\* Transaction.Hash: sha256 of "%s%s%d%d%s%s"
TxHash(tx) ==
  Sha256Hex(tx.From \o tx.To \o FormatU64(tx.Amount) \o FormatU64(tx.Fee)
            \o tx.Signature \o FormatTime(tx.Timestamp))

\* Transaction.DataToSign: sha256 of "%s%s%d%d%s"
DataToSign(tx) ==
  Sha256Raw(tx.From \o tx.To \o FormatU64(tx.Amount) \o FormatU64(tx.Fee)
            \o FormatTime(tx.Timestamp))

\* Transaction.SetSignature
SetSignature(tx, signature) ==
  LET signed == [tx EXCEPT !.Signature = signature]
  IN  [signed EXCEPT !.ID = TxHash(signed)]

\* Transaction.IsCoinbase
IsCoinbase(tx) == tx.From = EmptyString /\ tx.Signature = CoinbaseSignature

\* Transaction.Validate: "nil" or the error
TxValidate(tx) ==
  IF IsCoinbase(tx)
  THEN IF tx.To = EmptyString THEN "to address is required"
       ELSE IF tx.Amount = U64Zero THEN "amount must be greater than zero"
       ELSE IF tx.ID = EmptyString THEN "transaction ID must be set"
       ELSE IF tx.ID # TxHash(tx) THEN "transaction ID mismatch"
       ELSE "nil"
  ELSE IF tx.From = EmptyString THEN "from address is required"
       ELSE IF tx.To = EmptyString THEN "to address is required"
       ELSE IF tx.Amount = U64Zero THEN "amount must be greater than zero"
       ELSE IF tx.Fee = U64Zero THEN "fee must be greater than zero"
       ELSE IF tx.Signature = EmptyString THEN "transaction must be signed"
       ELSE IF tx.ID = EmptyString THEN "transaction ID must be set"
       ELSE IF tx.ID # TxHash(tx) THEN "transaction ID mismatch"
       ELSE "nil"

\* Transaction.Total: Amount + Fee in uint64
Total(tx) == U64Add(tx.Amount, tx.Fee)

\* The fee NewCoinbaseTransaction writes into every coinbase
CoinbaseFee == 45

\* NewCoinbaseTransaction(to, amount) at the instant now
NewCoinbaseTransaction(to, amount, now) ==
  LET tx == Tx(EmptyString, EmptyString, to, amount, U64(CoinbaseFee),
               CoinbaseSignature, now)
  IN  [tx EXCEPT !.ID = TxHash(tx)]

\* NewTransaction(from, to, amount, fee) at the instant now (unsigned)
NewTransaction(from, to, amount, fee, now) ==
  Tx(EmptyString, from, to, amount, fee, EmptyString, now)

\* The addresses that are well-formed public keys (65 bytes, 0x04, on the
\* curve); each names its own key pair.
WalletAddresses == {<<"A">>, <<"B">>, <<"M">>}

\* The address genesis credits: 122 hex characters, so not a public key
PreFundedAddress ==
  <<"04f8a1c2d3e4f5a6b7c8d9e0f1a2b3c4d5e6f7a8b9c0d1e2f3a4b5c6d7e8f9a0b1c2d3e4f5a6b7c8d9e0f1a2b3c4d5e6f7a8b9c0d1e2f3a4b5c6d7e8f9">>

\* AddressToPublicKey succeeds
AddressIsPublicKey(address) == address \in WalletAddresses

\* wallet.Sign(data, key of address): the DER signature in hex
Sign(data, address) == <<"sig(">> \o address \o data \o <<")">>

\* wallet.Verify(data, signature, public key of address): parses the signature
\* and checks it; an unparsable signature is an error, reported here as FALSE
Verify(data, signature, address) ==
  /\ Len(signature) >= 2
  /\ signature[1] = "sig("
  /\ signature = Sign(data, address)

\* wallet.VerifyTransactionSignature: valid and no error
VerifyTransactionSignature(tx) ==
  IF IsCoinbase(tx) THEN TRUE
  ELSE /\ AddressIsPublicKey(tx.From)
       /\ Verify(DataToSign(tx), tx.Signature, tx.From)

\* Wallet.CreateAndSignTransaction
CreateAndSignTransaction(from, to, amount, fee, now) ==
  LET tx == NewTransaction(from, to, amount, fee, now)
  IN  SetSignature(tx, Sign(DataToSign(tx), from))

----------------------------------------------------------------------------
(* Merkle trees (core/merkle.go).                                          *)

\* combineHashes
combineHashes(hash1, hash2) == Sha256Hex(hash1 \o hash2)

\* one level of the tree: the pairs of an even-length list combined
RECURSIVE MerkleLevel(_)
MerkleLevel(hashes) ==
  IF hashes = <<>> THEN <<>>
  ELSE <<combineHashes(hashes[1], hashes[2])>> \o MerkleLevel(SubSeq(hashes, 3, Len(hashes)))

\* the duplication of the last element of an odd level
PadLevel(hashes) ==
  IF Len(hashes) % 2 # 0 THEN Append(hashes, hashes[Len(hashes)]) ELSE hashes

RECURSIVE buildMerkleTree(_)
buildMerkleTree(hashes) ==
  IF Len(hashes) = 1 THEN hashes[1]
  ELSE buildMerkleTree(MerkleLevel(PadLevel(hashes)))

BuildMerkleRoot(txIDs) ==
  IF Len(txIDs) = 0 THEN EmptyString ELSE buildMerkleTree(txIDs)

\* a verification that always takes the transaction for the left child
RECURSIVE VerifyLeftOnly(_, _, _, _)
VerifyLeftOnly(txID, merkleRoot, proof, index) ==
  IF proof = <<>> THEN txID = merkleRoot
  ELSE VerifyLeftOnly(combineHashes(txID, Head(proof)), merkleRoot, Tail(proof), index)

\* VerifyTransactionInclusion: the loop over the proof, one sibling per call;
\* (index >> i) & 1 at step i is the low bit of the index halved i times
RECURSIVE VerifyTransactionInclusion(_, _, _, _)
VerifyTransactionInclusion(txID, merkleRoot, proof, index) ==
  IF proof = <<>> THEN txID = merkleRoot
  ELSE LET siblingHash == Head(proof)
           currentHash == IF index % 2 = 0
                          THEN combineHashes(txID, siblingHash)
                          ELSE combineHashes(siblingHash, txID)
       IN  VerifyTransactionInclusion(currentHash, merkleRoot, Tail(proof), index \div 2)

\* GenerateMerkleProof: the loop over the levels, one level per call (the
\* index is 0-based; nil for an index out of range)
RECURSIVE GenerateMerkleProof(_, _)
GenerateMerkleProof(txIDs, index) ==
  IF index < 0 \/ index >= Len(txIDs) THEN <<>>
  ELSE IF Len(txIDs) <= 1 THEN <<>>
  ELSE LET currentLevel == PadLevel(txIDs)
           siblingIndex == IF index % 2 = 0 THEN index + 1 ELSE index - 1
           sibling == IF siblingIndex < Len(currentLevel)
                      THEN <<currentLevel[siblingIndex + 1]>> ELSE <<>>
       IN  sibling \o GenerateMerkleProof(MerkleLevel(currentLevel), index \div 2)

----------------------------------------------------------------------------
(* Blocks (core.Block).                                                    *)

Block(index, timestamp, transactions, nonce, previousHash, merkleRoot, hash, difficulty) ==
  [Index |-> index, Timestamp |-> timestamp, Transactions |-> transactions,
   Nonce |-> nonce, PreviousHash |-> previousHash, MerkleRoot |-> merkleRoot,
   Hash |-> hash, Difficulty |-> difficulty]

TxIDs(transactions) == [i \in 1..Len(transactions) |-> transactions[i].ID]

\* Block.ComputeMerkleRoot
ComputeMerkleRoot(b) ==
  IF Len(b.Transactions) = 0 THEN EmptyString ELSE BuildMerkleRoot(TxIDs(b.Transactions))

\* Block.ComputeHash: sha256 of "%d%s%s%s%d%d"
ComputeHash(b) ==
  Sha256Hex(FormatInt(b.Index) \o FormatTime(b.Timestamp) \o b.MerkleRoot
            \o b.PreviousHash \o FormatInt(b.Nonce) \o FormatInt(b.Difficulty))

\* Block.SetHash
SetHash(b) == [b EXCEPT !.Hash = ComputeHash(b)]

\* NewBlock at the instant now: nonce 0, no hash yet
NewBlock(index, transactions, previousHash, difficulty, now) ==
  LET b == Block(index, now, transactions, 0, previousHash, EmptyString,
                 EmptyString, difficulty)
  IN  [b EXCEPT !.MerkleRoot = ComputeMerkleRoot(b)]

\* the first transaction of the list that fails Transaction.Validate, or 0
FirstInvalidTx(transactions) ==
  IF \E i \in 1..Len(transactions) : TxValidate(transactions[i]) # "nil"
  THEN CHOOSE i \in 1..Len(transactions) :
         /\ TxValidate(transactions[i]) # "nil"
         /\ \A j \in 1..(i - 1) : TxValidate(transactions[j]) = "nil"
  ELSE 0

GenesisPreviousHash == <<"0">>

\* Block.Validate: "nil" or the error
BlockValidate(b) ==
  IF b.Index = 0 /\ b.PreviousHash # GenesisPreviousHash
  THEN "genesis block must have previous hash of '0'"
  ELSE IF b.Hash = EmptyString THEN "block hash is empty"
  ELSE IF b.Hash # ComputeHash(b) THEN "block hash is invalid"
  ELSE IF b.MerkleRoot # ComputeMerkleRoot(b) THEN "merkle root mismatch"
  ELSE IF FirstInvalidTx(b.Transactions) # 0 THEN "transaction invalid"
  ELSE "nil"

\* The amount genesis mints, and its fixed instant (2020-01-01, before any boot)
GenesisSupply == 1000000

GenesisTime == 0

\* NewGenesisBlock, booted at the instant now
\* a genesis whose coinbase pays the supply less the coinbase fee
NewGenesisBlockNetOfFee(now) ==
  LET coinbase == NewCoinbaseTransaction(PreFundedAddress,
                                         U64(GenesisSupply - CoinbaseFee), now)
      g == Block(0, GenesisTime, <<coinbase>>, 0, GenesisPreviousHash,
                 EmptyString, EmptyString, 1)
      withRoot == [g EXCEPT !.MerkleRoot = ComputeMerkleRoot(g)]
  IN  SetHash(withRoot)

NewGenesisBlock(now) ==
  LET coinbase == NewCoinbaseTransaction(PreFundedAddress, U64(GenesisSupply), now)
      g == Block(0, GenesisTime, <<coinbase>>, 0, GenesisPreviousHash,
                 EmptyString, EmptyString, 1)
      withRoot == [g EXCEPT !.MerkleRoot = ComputeMerkleRoot(g)]
  IN  SetHash(withRoot)

----------------------------------------------------------------------------
(* The UTXO engine (core.UTXOSet).  The set is the content of the map      *)
(* utxos[txID][index]; at most one element per (TxID, Index).              *)

UTXO(txID, address, amount, index) ==
  [TxID |-> txID, Address |-> address, Amount |-> amount, Index |-> index]

\* UTXOSet.AddUTXO: insert, replacing the entry of the same key
AddUTXO(us, utxo) ==
  {x \in us : ~(x.TxID = utxo.TxID /\ x.Index = utxo.Index)} \cup {utxo}

\* UTXOSet.RemoveUTXO
RemoveUTXO(us, txID, index) == {x \in us : ~(x.TxID = txID /\ x.Index = index)}

RECURSIVE RemoveAll(_, _)
RemoveAll(us, spend) ==
  IF spend = <<>> THEN us
  ELSE RemoveAll(RemoveUTXO(us, Head(spend).TxID, Head(spend).Index), Tail(spend))

\* every order in which ranging over a Go map can enumerate the set S
RECURSIVE Orders(_)
Orders(S) ==
  IF S = {} THEN {<<>>}
  ELSE UNION {{<<x>> \o o : o \in Orders(S \ {x})} : x \in S}

\* UTXOSet.GetUTXOsForAddress: the outputs of the address (in some order)
GetUTXOsForAddress(us, address) == {x \in us : x.Address = address}

RECURSIVE SumAmounts(_)
SumAmounts(S) ==
  IF S = {} THEN U64Zero
  ELSE LET x == CHOOSE y \in S : TRUE
       IN  U64Add(x.Amount, SumAmounts(S \ {x}))

\* UTXOSet.GetBalance: the uint64 sum of the address's outputs
GetBalance(us, address) == SumAmounts(GetUTXOsForAddress(us, address))

\* the input selection loop of ApplyTransaction over the enumeration `order`,
\* from position i with `total` accumulated: <<number selected, total>>
RECURSIVE SelectInputs(_, _, _, _)
SelectInputs(order, i, total, needed) ==
  LET sum == U64Add(total, order[i].Amount)
  IN  IF U64GreaterEq(sum, needed) \/ i = Len(order) THEN <<i, sum>>
      ELSE SelectInputs(order, i + 1, sum, needed)

\* UTXOSet.ApplyTransaction when the sender's outputs are enumerated in `order`
ApplyTransaction(us, tx, order) ==
  IF IsCoinbase(tx)
  THEN [err |-> "nil", utxos |-> AddUTXO(us, UTXO(tx.ID, tx.To, tx.Amount, 0))]
  ELSE IF Len(order) = 0
  THEN [err |-> "sender has no UTXOs", utxos |-> us]
  ELSE LET totalNeeded == Total(tx)
           sel == SelectInputs(order, 1, U64Zero, totalNeeded)
           utxosToSpend == SubSeq(order, 1, sel[1])
           totalAvailable == sel[2]
           change == U64Sub(totalAvailable, totalNeeded)
           spent == RemoveAll(us, utxosToSpend)
           paid == AddUTXO(spent, UTXO(tx.ID, tx.To, tx.Amount, 0))
       IN  IF U64Less(totalAvailable, totalNeeded)
           THEN [err |-> "insufficient balance", utxos |-> us]
           ELSE [err |-> "nil",
                 utxos |-> IF change # U64Zero
                           THEN AddUTXO(paid, UTXO(tx.ID, tx.From, change, 1))
                           ELSE paid]

\* every result ApplyTransaction can have
ApplyOutcomes(us, tx) ==
  {ApplyTransaction(us, tx, order) : order \in Orders(GetUTXOsForAddress(us, tx.From))}

\* the loop "for each tx: ApplyTransaction, return at the first error" of
\* UTXOSet.Update, Blockchain.AddBlock and UTXOSet.Rebuild: every result
RECURSIVE ApplyAllOutcomes(_, _)
ApplyAllOutcomes(us, transactions) ==
  IF transactions = <<>> THEN {[err |-> "nil", utxos |-> us]}
  ELSE UNION {IF r.err # "nil" THEN {r} ELSE ApplyAllOutcomes(r.utxos, Tail(transactions))
              : r \in ApplyOutcomes(us, Head(transactions))}

\* UTXOSet.Update
UpdateOutcomes(us, block) == ApplyAllOutcomes(us, block.Transactions)

\* UTXOSet.ValidateTransaction: "nil" or the error
ValidateTransaction(us, tx) ==
  IF IsCoinbase(tx) THEN "nil"
  ELSE IF U64Less(GetBalance(us, tx.From), Total(tx)) THEN "insufficient balance"
  ELSE "nil"

\* UTXOSet.Rebuild from position i of the chain, the set so far being us
RECURSIVE RebuildFrom(_, _, _, _)
RebuildFrom(us, chain, chainHeight, i) ==
  IF i > chainHeight THEN {[err |-> "nil", utxos |-> us]}
  ELSE IF i >= Len(chain) THEN RebuildFrom(us, chain, chainHeight, i + 1)
  ELSE UNION {IF r.err # "nil" THEN {r} ELSE RebuildFrom(r.utxos, chain, chainHeight, i + 1)
              : r \in ApplyAllOutcomes(us, chain[i + 1].Transactions)}

\* UTXOSet.Rebuild: every result of replaying the chain on the empty set
RebuildOutcomes(chain, chainHeight) == RebuildFrom({}, chain, chainHeight, 0)

----------------------------------------------------------------------------
(* The mempool (txpool.Mempool): the set of the map's values, one per ID.  *)

MempoolHas(mp, id) == \E t \in mp : t.ID = id

\* AddTransaction without its check: the map entry is overwritten
AddTransactionOverwriting(mp, tx) ==
  [err |-> "nil", mempool |-> {t \in mp : t.ID # tx.ID} \cup {tx}]

\* Mempool.AddTransaction
AddTransaction(mp, tx) ==
  IF MempoolHas(mp, tx.ID)
  THEN [err |-> "transaction already in mempool", mempool |-> mp]
  ELSE [err |-> "nil", mempool |-> mp \cup {tx}]

\* Mempool.RemoveTransaction
RemoveTransaction(mp, id) == {t \in mp : t.ID # id}

RECURSIVE RemoveTransactions(_, _)
RemoveTransactions(mp, txs) ==
  IF txs = <<>> THEN mp ELSE RemoveTransactions(RemoveTransaction(mp, Head(txs).ID), Tail(txs))

\* the comparison a plausible slip would write: lowest fee first
FeeBeforeAscending(a, b) == U64Less(a.Fee, b.Fee)

\* the less function given to sort.Slice: txs[i].Fee > txs[j].Fee
FeeBefore(a, b) == U64Less(b.Fee, a.Fee)

\* one pass of the insertion sort sort.Slice runs on a short slice: tx moves
\* towards the front while it is less than its predecessor
RECURSIVE InsertByFee(_, _)
InsertByFee(sorted, tx) ==
  IF sorted = <<>> \/ ~FeeBefore(tx, sorted[Len(sorted)]) THEN Append(sorted, tx)
  ELSE Append(InsertByFee(SubSeq(sorted, 1, Len(sorted) - 1), tx), sorted[Len(sorted)])

RECURSIVE SortByFee(_)
SortByFee(txs) ==
  IF txs = <<>> THEN <<>>
  ELSE InsertByFee(SortByFee(SubSeq(txs, 1, Len(txs) - 1)), txs[Len(txs)])

Truncate(txs, limit) == IF Len(txs) > limit THEN SubSeq(txs, 1, limit) ELSE txs

\* Mempool.GetTransactions(limit): the map's values in the order the map
\* enumerates them, sorted by fee, highest first, cut to limit
GetTransactions(mp, limit) == {Truncate(SortByFee(txs), limit) : txs \in Orders(mp)}

----------------------------------------------------------------------------
(* Proof-of-Work (consensus.ProofOfWork).                                  *)

\* ProofOfWork.isValidHash against the target of `difficulty` zeros
isValidHash(hash, difficulty) ==
  IF StrLen(hash) < difficulty THEN FALSE ELSE LeadingZeros(hash) >= difficulty

\* a search that never accepts the nonce it starts from
RECURSIVE MinePastFirst(_, _)
MinePastFirst(block, difficulty) ==
  LET hashed == SetHash(block)
  IN  IF block.Nonce > 0 /\ isValidHash(hashed.Hash, difficulty)
      THEN [found |-> TRUE, block |-> hashed]
      ELSE IF block.Nonce >= MaxNonce THEN [found |-> FALSE, block |-> hashed]
      ELSE MinePastFirst([hashed EXCEPT !.Nonce = @ + 1], difficulty)

\* ProofOfWork.Mine: the nonce search from the block's nonce; found = FALSE
\* when no nonce up to MaxNonce satisfies the difficulty (the search goes on)
RECURSIVE Mine(_, _)
Mine(block, difficulty) ==
  LET hashed == SetHash(block)
  IN  IF isValidHash(hashed.Hash, difficulty) THEN [found |-> TRUE, block |-> hashed]
      ELSE IF block.Nonce >= MaxNonce THEN [found |-> FALSE, block |-> hashed]
      ELSE Mine([hashed EXCEPT !.Nonce = @ + 1], difficulty)

\* ProofOfWork.ValidateBlock: "nil" or the error
PowValidateBlock(block, difficulty) ==
  IF block.Hash # ComputeHash(block) THEN "block hash is incorrect"
  ELSE IF ~isValidHash(block.Hash, difficulty)
  THEN "block hash does not meet difficulty requirement"
  ELSE "nil"

----------------------------------------------------------------------------
(* JSON (Block.ToJSON, BlockFromJSON): numbers and instants become text.   *)

ParseInt(text) ==
  IF text # <<>> /\ Head(text) = "-" THEN 0 - ParseNat(Tail(text)) ELSE ParseNat(text)

\* a * 10 + d in uint64
U64MulAdd10(a, d) ==
  LET t1 == a[1] * 10 + d
      t2 == a[2] * 10 + (t1 \div LimbBase)
      t3 == a[3] * 10 + (t2 \div LimbBase)
      t4 == a[4] * 10 + (t3 \div LimbBase)
  IN  <<t1 % LimbBase, t2 % LimbBase, t3 % LimbBase, t4 % LimbBase>>

RECURSIVE ParseU64(_)
ParseU64(text) ==
  IF text = <<>> THEN U64Zero
  ELSE U64MulAdd10(ParseU64(SubSeq(text, 1, Len(text) - 1)), DigitValue(text[Len(text)]))

\* time.Parse of the text of an instant: the inverse of FormatTime
ParseTime(text) ==
  (ParseNat(SubSeq(text, 2, 3)) * 3600) + (ParseNat(SubSeq(text, 5, 6)) * 60)
    + ParseNat(SubSeq(text, 8, 9))

TxToJSON(tx) ==
  [id |-> tx.ID, from |-> tx.From, to |-> tx.To, amount |-> FormatU64(tx.Amount),
   fee |-> FormatU64(tx.Fee), signature |-> tx.Signature,
   timestamp |-> FormatTime(tx.Timestamp)]

TxFromJSON(j) ==
  Tx(j.id, j.from, j.to, ParseU64(j.amount), ParseU64(j.fee), j.signature,
     ParseTime(j.timestamp))

BlockToJSON(b) ==
  [index |-> FormatInt(b.Index), timestamp |-> FormatTime(b.Timestamp),
   transactions |-> [i \in 1..Len(b.Transactions) |-> TxToJSON(b.Transactions[i])],
   nonce |-> FormatInt(b.Nonce), previous_hash |-> b.PreviousHash,
   merkle_root |-> b.MerkleRoot, hash |-> b.Hash, difficulty |-> FormatInt(b.Difficulty)]

BlockFromJSON(j) ==
  Block(ParseInt(j.index), ParseTime(j.timestamp),
        [i \in 1..Len(j.transactions) |-> TxFromJSON(j.transactions[i])],
        ParseInt(j.nonce), j.previous_hash, j.merkle_root, j.hash, ParseInt(j.difficulty))

----------------------------------------------------------------------------
(* The archive (store.BadgerStore): the keys block:index:<i>,              *)
(* block:hash:<h> and blockchain:height (NoHeight while the key is absent).*)

NoHeight == -1

EmptyStore == [index |-> [i \in {} |-> 0], hash |-> [h \in {} |-> 0], height |-> NoHeight]

\* BadgerStore.SaveBlock: the three keys written in one transaction
SaveBlock(st, index, hash, data) ==
  [index |-> (index :> data) @@ st.index,
   hash |-> (hash :> data) @@ st.hash,
   height |-> index]

\* BadgerStore.GetHeight: 0 when the key is absent
StoreGetHeight(st) == IF st.height = NoHeight THEN 0 ELSE st.height

\* BadgerStore.GetBlock: found or not
StoreHasBlock(st, index) == index \in DOMAIN st.index

----------------------------------------------------------------------------
(* The chain (core.Blockchain).                                            *)

\* a validation that accepts a block at any index
ValidateBlockAnyIndex(chain, chainHeight, block) ==
  IF chainHeight > 0 /\ block.PreviousHash # chain[Len(chain)].Hash
  THEN "previous hash mismatch"
  ELSE BlockValidate(block)

\* Blockchain.ValidateBlock: "nil" or the error
ValidateBlock(chain, chainHeight, block) ==
  IF chainHeight > 0 /\ block.PreviousHash # chain[Len(chain)].Hash
  THEN "previous hash mismatch"
  ELSE IF block.Index # chainHeight + 1 THEN "invalid block index"
  ELSE BlockValidate(block)

\* Blockchain.AddBlock: every result, given whether the archive write fails
AddBlockOutcomes(chain, chainHeight, us, st, block, saveFails) ==
  IF ValidateBlock(chain, chainHeight, block) # "nil"
  THEN {[err |-> "invalid block", blocks |-> chain, height |-> chainHeight,
         utxos |-> us, store |-> st]}
  ELSE {IF r.err # "nil"
        THEN [err |-> "failed to apply transaction", blocks |-> chain,
              height |-> chainHeight, utxos |-> r.utxos, store |-> st]
        ELSE [err |-> IF saveFails THEN "archive error" ELSE "nil",
              blocks |-> Append(chain, block), height |-> chainHeight + 1,
              utxos |-> r.utxos,
              store |-> IF saveFails THEN st
                        ELSE SaveBlock(st, block.Index, block.Hash, BlockToJSON(block))]
        : r \in ApplyAllOutcomes(us, block.Transactions)}

\* Blockchain.GetLatestBlock
GetLatestBlock(chain) == chain[Len(chain)]

\* the transactions of the blocks loaded so far, applied with errors ignored
\* (the inner loop of loadFromStore and of createGenesisBlock)
RECURSIVE ApplyIgnoringErrors(_, _)
ApplyIgnoringErrors(us, transactions) ==
  IF transactions = <<>> THEN {us}
  ELSE UNION {ApplyIgnoringErrors(r.utxos, Tail(transactions))
              : r \in ApplyOutcomes(us, Head(transactions))}

\* Blockchain.loadFromStore from position i: every result
RECURSIVE LoadFrom(_, _, _, _)
LoadFrom(st, chain, us, i) ==
  IF i > StoreGetHeight(st)
  THEN {[err |-> "nil", blocks |-> chain, height |-> StoreGetHeight(st), utxos |-> us]}
  ELSE IF ~StoreHasBlock(st, i)
  THEN {[err |-> "failed to load block", blocks |-> chain, height |-> 0, utxos |-> us]}
  ELSE LET block == BlockFromJSON(st.index[i])
       IN  UNION {LoadFrom(st, Append(chain, block), u, i + 1)
                  : u \in ApplyIgnoringErrors(us, block.Transactions)}

----------------------------------------------------------------------------
(* The miner (miner.Miner).                                                *)

\* The fixed block reward, and the number of transactions MineBlock draws
BlockReward == 50

MineBatchLimit == 100

RECURSIVE SumFees(_)
SumFees(txs) == IF txs = <<>> THEN U64Zero ELSE U64Add(Head(txs).Fee, SumFees(Tail(txs)))

\* the block MineBlock builds from the selection txs, before the nonce search
CandidateBlock(chain, chainHeight, txs, minerAddress, difficulty, now) ==
  LET coinbase == NewCoinbaseTransaction(minerAddress,
                                        U64Add(U64(BlockReward), SumFees(txs)), now)
  IN  NewBlock(chainHeight + 1, <<coinbase>> \o txs, GetLatestBlock(chain).Hash,
               difficulty, now)

\* Miner.MineBlock after a successful nonce search: every result.  A failed
\* AddBlock returns its error; a failed Update is logged and ignored.
MineBlockOutcomes(chain, chainHeight, us, mp, st, mined, txs, saveFails) ==
  UNION {IF a.err # "nil"
         THEN {[err |-> a.err, blocks |-> a.blocks, height |-> a.height,
                utxos |-> a.utxos, store |-> a.store, mempool |-> mp]}
         ELSE {[err |-> "nil", blocks |-> a.blocks, height |-> a.height,
                utxos |-> u.utxos, store |-> a.store,
                mempool |-> RemoveTransactions(mp, txs)]
               : u \in UpdateOutcomes(a.utxos, mined)}
         : a \in AddBlockOutcomes(chain, chainHeight, us, st, mined, saveFails)}

----------------------------------------------------------------------------
(* The node: its state, and the inputs its two entry paths can receive.    *)

VARIABLES
  blocks,      \* Blockchain.blocks
  height,      \* Blockchain.height
  utxos,       \* UTXOSet.utxos
  mempool,     \* Mempool.transactions
  store,       \* the archive
  difficulty,  \* ProofOfWork.difficulty
  now,         \* the clock time.Now() reads
  phase,       \* where main() is: "new", "initialized", "running", "exited"
  last,        \* the last operation and the error it returned
  call,        \* the call made directly on an object: its arguments
  threads,     \* the threads that run concurrently: position and locals of each
  locks,       \* the holder of each mutex that is held across steps
  peers,       \* Node.peers
  net          \* the nodes of a network and the frames on their connections

\* the variables of concurrent threads and of the network
others == <<threads, locks, peers, net>>

vars == <<blocks, height, utxos, mempool, store, difficulty, now, phase, last, call, others>>

\* no mutex is held
NoLocks == [chain |-> "free", utxo |-> "free", peers |-> "free", miner |-> "free"]

\* one thread, no peers, no network
Alone == threads = <<>> /\ locks = NoLocks /\ peers = <<>> /\ net = <<>>

AddrA == <<"A">>
AddrB == <<"B">>
AddrM == <<"M">>

\* A transfer signed by its sender's wallet
SignedTransfer == CreateAndSignTransaction(AddrA, AddrB, U64(10), U64(1), 1)

\* A transfer out of the pre-funded address carrying a signature nobody made
ForgedTransfer ==
  SetSignature(NewTransaction(PreFundedAddress, AddrA, U64(100), U64(3), 1), <<"forged">>)

\* A coinbase-shaped transaction made by a client
ClientCoinbase == NewCoinbaseTransaction(AddrB, U64(7), 1)

\* A transfer of the pre-funded address's whole balance, signature not its own
DrainTransfer ==
  SetSignature(NewTransaction(PreFundedAddress, AddrB, U64(GenesisSupply - 10), U64(10), 1),
               <<"forged">>)

\* the transactions a client or a peer submits
SubmittedTxs == {SignedTransfer, ForgedTransfer, ClientCoinbase, DrainTransfer}

\* the miner_address values POST /mine is called with
MinerAddresses == {AddrM, EmptyString}

\* a coinbase made by a peer's miner
PeerCoinbase(amount) == NewCoinbaseTransaction(AddrM, amount, 1)

\* the transaction lists of the blocks peers send
PeerTxLists ==
  {<<PeerCoinbase(U64(50))>>,
   <<PeerCoinbase(U64(51)), SignedTransfer>>,
   <<PeerCoinbase(U64(53)), ForgedTransfer>>,
   <<ForgedTransfer>>,
   <<PeerCoinbase(U64(1000))>>,
   <<>>}

\* a hash that is the hash of no block of the chain
ForeignHash == Sha256Hex(<<"fork">>)

\* a block a peer built with NewBlock and mined at difficulty 1
PeerMinedBlock(index, txs, prev) == Mine(NewBlock(index, txs, prev, 1, 1), 1).block

\* a block a peer built and hashed at a nonce that does not meet difficulty 1
PeerUnminedBlock(index, txs, prev) ==
  LET b == NewBlock(index, txs, prev, 1, 1)
      nonce == CHOOSE n \in 0..MaxNonce :
                 ~isValidHash(ComputeHash([b EXCEPT !.Nonce = n]), 1)
  IN  SetHash([b EXCEPT !.Nonce = nonce])

\* the blocks peers send: on top of the tip at the next index with each
\* transaction list; and with a foreign previous hash, a skipped index, or
\* no proof of work
PeerBlocks ==
  IF blocks = <<>> THEN {}
  ELSE LET tip == GetLatestBlock(blocks).Hash
           plain == <<PeerCoinbase(U64(50))>>
       IN  {PeerMinedBlock(height + 1, txs, tip) : txs \in PeerTxLists}
           \cup {PeerMinedBlock(height + 1, plain, ForeignHash),
                 PeerMinedBlock(height + 2, plain, tip),
                 PeerUnminedBlock(height + 1, plain, tip)}

Result(op, err) == [op |-> op, err |-> err]

\* no direct call on the UTXO set has been made
NoCall == [tx |-> <<>>, before |-> {}]

Init ==
  /\ blocks = <<>>
  /\ height = 0
  /\ utxos = {}
  /\ mempool = {}
  /\ store = EmptyStore
  /\ difficulty = 1
  /\ now = 1
  /\ phase = "new"
  /\ last = Result("main", "nil")
  /\ call = NoCall
  /\ Alone

\* Blockchain.Initialize: createGenesisBlock on an empty archive (or one
\* whose height is 0), loadFromStore otherwise; main exits on an error
Initialize(saveFails) ==
  /\ phase = "new"
  /\ IF StoreGetHeight(store) = 0
     THEN LET genesis == NewGenesisBlock(now)
          IN  /\ blocks' = Append(blocks, genesis)
              /\ height' = 0
              /\ utxos' \in ApplyIgnoringErrors(utxos, genesis.Transactions)
              /\ store' = IF saveFails THEN store
                          ELSE SaveBlock(store, genesis.Index, genesis.Hash,
                                         BlockToJSON(genesis))
              /\ last' = Result("Initialize", IF saveFails THEN "archive error" ELSE "nil")
     ELSE \E r \in LoadFrom(store, blocks, utxos, 0) :
              /\ blocks' = r.blocks
              /\ height' = r.height
              /\ utxos' = r.utxos
              /\ store' = store
              /\ last' = Result("Initialize", r.err)
  /\ phase' = IF last'.err = "nil" THEN "initialized" ELSE "exited"
  /\ now' = now + 1
  /\ UNCHANGED <<mempool, difficulty, call, others>>

\* UTXOSet.Rebuild as main runs it after Initialize; main exits on an error
Rebuild ==
  /\ phase = "initialized"
  /\ \E r \in RebuildOutcomes(blocks, height) :
       /\ utxos' = r.utxos
       /\ last' = Result("Rebuild", r.err)
       /\ phase' = IF r.err = "nil" THEN "running" ELSE "exited"
  /\ UNCHANGED <<blocks, height, mempool, store, difficulty, now, call, others>>

----------------------------------------------------------------------------
(* The goroutines of a running node.  threads holds the frame of each: the *)
(* operation, the position in its code and its locals.  A step is one      *)
(* critical section of the code (one Lock..Unlock or RLock..RUnlock pair)  *)
(* or, where a mutex stays held across calls that can block, the part up   *)
(* to the next lock request.  locks records the holder of a mutex that     *)
(* stays held between steps.                                               *)

\* the locals of a thread at the entry of operation op.  miner is the
\* reward address MineBlock was given, warned whether MineBlock has logged
\* the warning of a failed Update; entry and alone are history: the node's
\* state when the request came in, and whether no other request has been
\* served since
NewThread(op, pc, block, queue) ==
  [op |-> op, in |-> op, pc |-> pc, txs |-> queue, tip |-> <<>>, block |-> block,
   queue |-> queue, spend |-> <<>>, change |-> U64Zero, i |-> 0, h |-> 0,
   err |-> "nil", seen |-> {}, miner |-> AddrM, warned |-> FALSE,
   entry |-> <<>>, alone |-> TRUE]

\* the return of ApplyTransaction to its caller: nil
Applied(f) ==
  LET g == [f EXCEPT !.queue = Tail(@)]
  IN  [g EXCEPT !.pc = IF f.in = "Rebuild" THEN "relock"
                       ELSE IF g.queue # <<>> THEN "apply"
                       ELSE IF f.in = "AddBlock" THEN "append"
                       ELSE IF f.in = "Update" THEN "remove"
                       ELSE "done"]

\* the return of ApplyTransaction to its caller: an error.  AddBlock and
\* Rebuild return it, ApplyTransaction's direct caller gets it, MineBlock
\* logs the error of Update and goes on
Failed(f, err) ==
  IF f.in = "Rebuild" THEN [f EXCEPT !.pc = "relock", !.err = "failed to apply transaction"]
  ELSE IF f.in = "AddBlock" THEN [f EXCEPT !.pc = "done", !.err = "failed to apply transaction"]
  ELSE IF f.in = "Update" THEN [f EXCEPT !.pc = "remove", !.warned = TRUE]
  ELSE [f EXCEPT !.pc = "done", !.err = err]

\* UTXOSet.ApplyTransaction, one call of GetUTXOsForAddress, RemoveUTXO or
\* AddUTXO per step: each takes and releases the UTXO mutex by itself
ApplyTransactionStep(t) ==
  LET f == threads[t]
      tx == Head(f.queue)
  IN  /\ f.pc \in {"apply", "spend", "pay", "change"}
      /\ locks.utxo = "free"
      /\ \/ /\ f.pc = "apply" /\ IsCoinbase(tx)
            /\ utxos' = AddUTXO(utxos, UTXO(tx.ID, tx.To, tx.Amount, 0))
            /\ threads' = [threads EXCEPT ![t] = Applied(f)]
            /\ UNCHANGED <<locks, call>>
         \/ /\ f.pc = "apply" /\ ~IsCoinbase(tx)
            /\ \E order \in Orders(GetUTXOsForAddress(utxos, tx.From)) :
                 LET r == ApplyTransaction(utxos, tx, order)
                     sel == SelectInputs(order, 1, U64Zero, Total(tx))
                 IN  IF r.err # "nil"
                     THEN /\ threads' = [threads EXCEPT ![t] = Failed(f, r.err)]
                          /\ locks' = IF f.in = "AddBlock"
                                      THEN [locks EXCEPT !.chain = "free"] ELSE locks
                     ELSE /\ threads' = [threads EXCEPT ![t] =
                                 [f EXCEPT !.pc = "spend",
                                           !.spend = SubSeq(order, 1, sel[1]),
                                           !.change = U64Sub(sel[2], Total(tx))]]
                          /\ UNCHANGED locks
            /\ UNCHANGED <<utxos, call>>
         \/ /\ f.pc = "spend"
            /\ utxos' = RemoveUTXO(utxos, Head(f.spend).TxID, Head(f.spend).Index)
            /\ threads' = [threads EXCEPT ![t] =
                   [f EXCEPT !.spend = Tail(@),
                             !.pc = IF Tail(f.spend) = <<>> THEN "pay" ELSE "spend"]]
            /\ call' = IF "spent" \in DOMAIN call
                        THEN [call EXCEPT !.spent =
                                @ \cup {<<Head(f.spend).TxID, Head(f.spend).Index>>}]
                        ELSE call
            /\ UNCHANGED locks
         \/ /\ f.pc = "pay"
            /\ utxos' = AddUTXO(utxos, UTXO(tx.ID, tx.To, tx.Amount, 0))
            /\ threads' = [threads EXCEPT ![t] =
                   IF f.change # U64Zero THEN [f EXCEPT !.pc = "change"] ELSE Applied(f)]
            /\ UNCHANGED <<locks, call>>
         \/ /\ f.pc = "change"
            /\ utxos' = AddUTXO(utxos, UTXO(tx.ID, tx.From, f.change, 1))
            /\ threads' = [threads EXCEPT ![t] = Applied(f)]
            /\ UNCHANGED <<locks, call>>
      /\ UNCHANGED <<blocks, height, mempool, store, difficulty, now, phase, last,
                     peers, net>>

\* AddBlock without its mutex: the request is always granted
ChainLockIgnored(t) == TRUE

\* the chain mutex can be taken by thread t
ChainLockFree(t) == locks.chain = "free"

\* Blockchain.AddBlock: Lock and ValidateBlock; (the transactions are
\* applied by ApplyTransactionStep;) append; height++; SaveBlock and the
\* deferred Unlock.  MineBlock goes on to UTXOSet.Update after a nil return.
AddBlockStep(t, saveFails) ==
  LET f == threads[t]
  IN  /\ \/ /\ f.pc = "addblock"
            /\ ChainLockFree(t)
            /\ IF ValidateBlock(blocks, height, f.block) # "nil"
               THEN /\ threads' = [threads EXCEPT ![t] =
                           [f EXCEPT !.pc = "done", !.err = "invalid block"]]
                    /\ UNCHANGED locks
               ELSE /\ threads' = [threads EXCEPT ![t] =
                           [f EXCEPT !.pc = IF f.block.Transactions = <<>>
                                            THEN "append" ELSE "apply",
                                     !.in = "AddBlock",
                                     !.queue = f.block.Transactions]]
                    /\ locks' = [locks EXCEPT !.chain = t]
            /\ UNCHANGED <<blocks, height, store>>
         \/ /\ f.pc = "append"
            /\ blocks' = Append(blocks, f.block)
            /\ threads' = [threads EXCEPT ![t].pc = "height"]
            /\ UNCHANGED <<height, store, locks>>
         \/ /\ f.pc = "height"
            /\ height' = height + 1
            /\ threads' = [threads EXCEPT ![t].pc = "save"]
            /\ UNCHANGED <<blocks, store, locks>>
         \/ /\ f.pc = "save"
            /\ store' = IF saveFails THEN store
                        ELSE SaveBlock(store, f.block.Index, f.block.Hash,
                                       BlockToJSON(f.block))
            /\ locks' = [locks EXCEPT !.chain = "free"]
            /\ threads' = [threads EXCEPT ![t] =
                   IF saveFails THEN [f EXCEPT !.pc = "done", !.err = "archive error"]
                   ELSE IF f.op = "MineBlock"
                   THEN [f EXCEPT !.pc = IF f.block.Transactions = <<>>
                                         THEN "remove" ELSE "apply",
                                  !.in = "Update",
                                  !.queue = f.block.Transactions]
                   ELSE [f EXCEPT !.pc = "done"]]
            /\ UNCHANGED <<blocks, height>>
      /\ UNCHANGED <<utxos, mempool, difficulty, now, phase, last, call, peers, net>>

\* Miner.MineBlock around AddBlock and Update: GetTransactions and the
\* coinbase (the clock is read, and has moved on when it is read next);
\* GetLatestBlock; GetHeight and NewBlock; the nonce search of
\* ProofOfWork.Mine, which touches nothing but the block and lasts until a
\* nonce satisfies the difficulty; and at the end one RemoveTransaction per
\* selected transaction
MineBlockStep(t) ==
  LET f == threads[t]
  IN  /\ \/ /\ f.pc = "select"
            /\ \E txs \in GetTransactions(mempool, MineBatchLimit) :
                 threads' = [threads EXCEPT ![t] =
                   [f EXCEPT !.pc = "tip", !.txs = txs,
                             !.queue = <<NewCoinbaseTransaction(f.miner,
                                           U64Add(U64(BlockReward), SumFees(txs)), now)>>
                                       \o txs]]
            /\ now' = now + 1
            /\ UNCHANGED mempool
         \/ /\ f.pc = "tip"
            /\ locks.chain = "free"
            /\ threads' = [threads EXCEPT ![t] =
                   [f EXCEPT !.pc = "build", !.tip = GetLatestBlock(blocks)]]
            /\ UNCHANGED <<mempool, now>>
         \/ /\ f.pc = "build"
            /\ locks.chain = "free"
            /\ threads' = [threads EXCEPT ![t] =
                   [f EXCEPT !.pc = "mine",
                             !.block = NewBlock(height + 1, f.queue, f.tip.Hash,
                                                difficulty, now)]]
            /\ UNCHANGED <<mempool, now>>
         \/ /\ f.pc = "mine"
            /\ LET mined == Mine(f.block, difficulty)
               IN  /\ mined.found
                   /\ threads' = [threads EXCEPT ![t] =
                          [f EXCEPT !.pc = "addblock", !.block = mined.block]]
            /\ UNCHANGED <<mempool, now>>
         \/ /\ f.pc = "remove" /\ f.txs # <<>>
            /\ mempool' = RemoveTransaction(mempool, Head(f.txs).ID)
            /\ threads' = [threads EXCEPT ![t].txs = Tail(@)]
            /\ UNCHANGED now
         \/ /\ f.pc = "remove" /\ f.txs = <<>>
            /\ threads' = [threads EXCEPT ![t].pc = "done"]
            /\ UNCHANGED <<mempool, now>>
      /\ UNCHANGED <<blocks, height, utxos, store, difficulty, phase, last, call, locks,
                     peers, net>>

\* Miner.Stop: Lock, mining = false, Unlock.  The threads that are in the
\* nonce search at that moment are recorded in the frame.
StopStep(t) ==
  LET f == threads[t]
  IN  /\ f.pc = "stop"
      /\ threads' = [threads EXCEPT ![t] =
             [f EXCEPT !.pc = "done",
                       !.seen = {u \in DOMAIN threads : threads[u].pc = "mine"}]]
      /\ UNCHANGED <<blocks, height, utxos, mempool, store, difficulty, now, phase, last,
                     call, locks, peers, net>>

\* UTXOSet.Rebuild: Lock and the fresh map; GetHeight; GetBlock(i); Unlock
\* before ApplyTransaction; Lock after it.  The deferred Unlock ends it.
RebuildStep(t) ==
  LET f == threads[t]
  IN  /\ \/ /\ f.pc = "rebuild"
            /\ locks.utxo = "free"
            /\ locks' = [locks EXCEPT !.utxo = t]
            /\ utxos' = {}
            /\ threads' = [threads EXCEPT ![t].pc = "getheight"]
         \/ /\ f.pc = "getheight"
            /\ locks.chain = "free"
            /\ threads' = [threads EXCEPT ![t] = [f EXCEPT !.pc = "getblock", !.h = height]]
            /\ UNCHANGED <<locks, utxos>>
         \/ /\ f.pc = "getblock" /\ f.i > f.h
            /\ locks' = [locks EXCEPT !.utxo = "free"]
            /\ threads' = [threads EXCEPT ![t].pc = "done"]
            /\ UNCHANGED utxos
         \/ /\ f.pc = "getblock" /\ f.i <= f.h
            /\ locks.chain = "free"
            /\ threads' = [threads EXCEPT ![t] =
                   IF f.i >= Len(blocks) \/ blocks[f.i + 1].Transactions = <<>>
                   THEN [f EXCEPT !.i = @ + 1]
                   ELSE [f EXCEPT !.i = @ + 1, !.pc = "unlock", !.in = "Rebuild",
                                  !.queue = blocks[f.i + 1].Transactions]]
            /\ UNCHANGED <<locks, utxos>>
         \/ /\ f.pc = "unlock"
            /\ locks' = [locks EXCEPT !.utxo = "free"]
            /\ threads' = [threads EXCEPT ![t].pc = "apply"]
            /\ UNCHANGED utxos
         \/ /\ f.pc = "relock"
            /\ locks.utxo = "free"
            /\ locks' = IF f.err # "nil" THEN locks ELSE [locks EXCEPT !.utxo = t]
            /\ threads' = [threads EXCEPT ![t].pc =
                   IF f.err # "nil" THEN "done"
                   ELSE IF f.queue # <<>> THEN "unlock" ELSE "getblock"]
            /\ UNCHANGED utxos
      /\ UNCHANGED <<blocks, height, mempool, store, difficulty, now, phase, last, call,
                     peers, net>>

\* what a read of the slice n.peers finds past the end of its array
Unallocated == "unallocated"

\* the values the range statement can read from n.peers without the mutex:
\* the list; and, while an AddPeer is about to write the slice header (its
\* append moves the elements to a longer array), a header with the new
\* length and the old array
PeerListReads ==
  {peers} \cup {Append(peers, Unallocated)
                 : u \in {v \in DOMAIN threads : threads[v].pc = "appendpeer"}}

\* Node.BroadcastTransaction, Node.BroadcastBlock and Node.Stop: (Stop
\* first writes running = false and closes the listener;) the range
\* statement reads n.peers, then one SendMessage (or Close) per peer, which
\* faults or not on a peer read from outside the array.  No mutex of the
\* node is taken.
RangePeersStep(t) ==
  LET f == threads[t]
  IN  /\ \/ /\ f.pc = "halt"
            /\ net' = [running |-> FALSE, listener |-> "closed"]
            /\ threads' = [threads EXCEPT ![t].pc = "range"]
         \/ /\ f.pc = "range"
            /\ \E list \in PeerListReads :
                 threads' = [threads EXCEPT ![t] = [f EXCEPT !.pc = "send", !.queue = list]]
            /\ UNCHANGED net
         \/ /\ f.pc = "send" /\ f.queue # <<>>
            /\ \/ threads' = [threads EXCEPT ![t].queue = Tail(@)]
               \/ /\ Head(f.queue) = Unallocated
                  /\ threads' = [threads EXCEPT ![t] =
                         [f EXCEPT !.pc = "done", !.err = "fault"]]
            /\ UNCHANGED net
         \/ /\ f.pc = "send" /\ f.queue = <<>>
            /\ threads' = [threads EXCEPT ![t].pc = "done"]
            /\ UNCHANGED net
      /\ UNCHANGED <<blocks, height, utxos, mempool, store, difficulty, now, phase, last,
                     call, locks, peers>>

\* Node.AddPeer(address): Connect; Lock; append; Unlock
AddPeerStep(t, address, connected) ==
  LET f == threads[t]
  IN  /\ \/ /\ f.pc = "connect"
            /\ threads' = [threads EXCEPT ![t] =
                   IF connected THEN [f EXCEPT !.pc = "lockpeers"]
                   ELSE [f EXCEPT !.pc = "done", !.err = "connect failed"]]
            /\ UNCHANGED <<locks, peers>>
         \/ /\ f.pc = "lockpeers"
            /\ locks.peers = "free"
            /\ locks' = [locks EXCEPT !.peers = t]
            /\ threads' = [threads EXCEPT ![t].pc = "appendpeer"]
            /\ UNCHANGED peers
         \/ /\ f.pc = "appendpeer"
            /\ peers' = Append(peers, address)
            /\ threads' = [threads EXCEPT ![t].pc = "unlockpeers"]
            /\ UNCHANGED locks
         \/ /\ f.pc = "unlockpeers"
            /\ locks' = [locks EXCEPT !.peers = "free"]
            /\ threads' = [threads EXCEPT ![t].pc = "done"]
            /\ UNCHANGED peers
      /\ UNCHANGED <<blocks, height, utxos, mempool, store, difficulty, now, phase, last,
                     call, net>>

----------------------------------------------------------------------------
(* The requests a running node serves, each on a goroutine of its own.     *)

\* the most requests the node serves at one time
MaxInFlight == 2

\* the node's state as a request finds it
Snapshot == [blocks |-> blocks, height |-> height, utxos |-> utxos, mempool |-> mempool]

\* the frames of the requests in flight when another request is served
Disturbed == [u \in DOMAIN threads |-> [threads[u] EXCEPT !.alone = FALSE]]

\* the frames once the goroutine t has begun to serve a request with frame f
Serve(t, f) ==
  (t :> [f EXCEPT !.entry = Snapshot, !.alone = (DOMAIN threads = {})]) @@ Disturbed

\* the frames once the goroutine t has returned
Gone(t) == [u \in DOMAIN threads \ {t} |-> threads[u]]

\* the goroutines that are on their way to append a block
Appenders == {t \in DOMAIN threads : threads[t].op \in {"MineBlock", "AddBlock"}}

\* the transactions that are pending or about to be: those of the mempool
\* and the one POST /tx has validated
Pending == Cardinality(mempool) + Cardinality(DOMAIN threads \cap {"post"})

\* the most transactions that are pending at one time on the node of Spec
MaxPending == 1

\* Server.handleBroadcastTransaction (POST /tx), on the goroutine "post", up
\* to the call of AddTransaction: Validate, VerifyTransactionSignature and
\* UTXOSet.ValidateTransaction, which reads the UTXO set once
handleBroadcastTransaction(tx) ==
  /\ phase = "running"
  /\ "post" \notin DOMAIN threads
  /\ Cardinality(DOMAIN threads) < MaxInFlight
  /\ locks.utxo = "free"
  /\ LET err == IF TxValidate(tx) # "nil" THEN "invalid transaction"
                ELSE IF ~VerifyTransactionSignature(tx) THEN "invalid signature"
                ELSE IF ValidateTransaction(utxos, tx) # "nil"
                     THEN "transaction validation failed"
                ELSE "nil"
     IN  IF err # "nil"
         THEN /\ last' = Result("POST /tx", err)
              /\ threads' = Disturbed
         ELSE /\ threads' = Serve("post", NewThread("POST /tx", "add", <<>>, <<tx>>))
              /\ UNCHANGED last
  /\ UNCHANGED <<blocks, height, utxos, mempool, store, difficulty, now, phase, call,
                 locks, peers, net>>

\* Server.handleBroadcastTransaction from the call of AddTransaction on:
\* the mempool takes the transaction or refuses it, BroadcastTransaction
\* finds no peers, and the response is written
handleBroadcastTransactionAdd ==
  /\ "post" \in DOMAIN threads
  /\ LET tx == Head(threads["post"].queue)
     IN  /\ mempool' = AddTransaction(mempool, tx).mempool
         /\ last' = Result("POST /tx", AddTransaction(mempool, tx).err)
  /\ threads' = Gone("post")
  /\ UNCHANGED <<blocks, height, utxos, store, difficulty, now, phase, call, locks,
                 peers, net>>

\* Server.handleMine (POST /mine), on the goroutine "http", up to the call
\* of Miner.MineBlock: the check of miner_address, and GetHeight
handleMine(minerAddress) ==
  /\ phase = "running"
  /\ "http" \notin DOMAIN threads
  /\ Cardinality(DOMAIN threads) < MaxInFlight
  /\ height + Cardinality(Appenders) < MaxHeight
  /\ now <= MaxClock
  /\ IF minerAddress = EmptyString
     THEN /\ last' = Result("POST /mine", "miner_address is required")
          /\ threads' = Disturbed
     ELSE /\ locks.chain = "free"
          /\ threads' = Serve("http", [NewThread("MineBlock", "select", <<>>, <<>>)
                                         EXCEPT !.miner = minerAddress, !.h = height])
          /\ UNCHANGED last
  /\ UNCHANGED <<blocks, height, utxos, mempool, store, difficulty, now, phase, call,
                 locks, peers, net>>

\* Server.handleMine after Miner.MineBlock has returned: its error, or
\* GetLatestBlock and the check of the tip's index against the height read
\* before the call; the response (the goroutine of BroadcastBlock finds no
\* peers)
handleMineResponse ==
  /\ "http" \in DOMAIN threads
  /\ LET f == threads["http"]
     IN  /\ f.pc = "done"
         /\ f.err = "nil" => locks.chain = "free"
         /\ last' = Result("POST /mine",
                           IF f.err # "nil" THEN f.err
                           ELSE IF GetLatestBlock(blocks).Index # f.h + 1
                                THEN "block was not added to chain"
                                ELSE "nil")
  /\ threads' = Gone("http")
  /\ UNCHANGED <<blocks, height, utxos, mempool, store, difficulty, now, phase, call,
                 locks, peers, net>>

\* Node.handleMessage, type new_transaction, on the goroutine of a
\* connection: the error of AddTransaction is dropped
handleNewTransaction(tx) ==
  /\ phase = "running"
  /\ mempool' = AddTransaction(mempool, tx).mempool
  /\ last' = Result("new_transaction", AddTransaction(mempool, tx).err)
  /\ threads' = Disturbed
  /\ UNCHANGED <<blocks, height, utxos, store, difficulty, now, phase, call, locks,
                 peers, net>>

\* the goroutine "conn1" of the connection is free to read the next frame
\* (Node.handleConnection reads one frame at a time)
ReadsNewBlock ==
  /\ phase = "running"
  /\ "conn1" \notin DOMAIN threads
  /\ Cardinality(DOMAIN threads) < MaxInFlight
  /\ height + Cardinality(Appenders) < MaxHeight

\* Node.handleMessage, type new_block, on the goroutine "conn1" of a
\* connection: the call of Blockchain.AddBlock, which runs by AddBlockStep
\* and ApplyTransactionStep
handleNewBlock(block) ==
  /\ ReadsNewBlock
  /\ threads' = Serve("conn1", NewThread("AddBlock", "addblock", block, <<>>))
  /\ UNCHANGED <<blocks, height, utxos, mempool, store, difficulty, now, phase, last,
                 call, locks, peers, net>>

\* Node.handleMessage, type new_block, after AddBlock has returned: its
\* error is dropped and BroadcastBlock finds no peers
handleNewBlockReturn ==
  /\ "conn1" \in DOMAIN threads
  /\ threads["conn1"].op = "AddBlock"
  /\ threads["conn1"].pc = "done"
  /\ last' = Result("new_block", threads["conn1"].err)
  /\ threads' = Gone("conn1")
  /\ UNCHANGED <<blocks, height, utxos, mempool, store, difficulty, now, phase, call,
                 locks, peers, net>>

\* the process is stopped, whatever its goroutines are doing, and main() is
\* started again over the same archive
Restart ==
  /\ phase = "running"
  /\ now <= MaxClock
  /\ blocks' = <<>>
  /\ height' = 0
  /\ utxos' = {}
  /\ mempool' = {}
  /\ phase' = "new"
  /\ last' = Result("main", "nil")
  /\ call' = [tx |-> <<>>, before |-> {}, stopped |-> blocks]
  /\ threads' = <<>>
  /\ locks' = NoLocks
  /\ UNCHANGED <<store, difficulty, now, peers, net>>

\* the archive fails, if at all, under the block POST /mine appends
ArchiveFails(t, saveFails) == saveFails => threads[t].op = "MineBlock"

\* a node whose clients and peers send one transaction at a time
Next ==
  \/ \E saveFails \in BOOLEAN : Initialize(saveFails)
  \/ Rebuild
  \/ \E tx \in SubmittedTxs : Pending < MaxPending /\ handleBroadcastTransaction(tx)
  \/ handleBroadcastTransactionAdd
  \/ \E a \in MinerAddresses : handleMine(a)
  \/ handleMineResponse
  \/ \E tx \in SubmittedTxs : Pending < MaxPending /\ handleNewTransaction(tx)
  \/ ReadsNewBlock /\ \E b \in PeerBlocks : handleNewBlock(b)
  \/ handleNewBlockReturn
  \/ \E t \in DOMAIN threads : MineBlockStep(t)
  \/ \E t \in DOMAIN threads, saveFails \in BOOLEAN :
       ArchiveFails(t, saveFails) /\ AddBlockStep(t, saveFails)
  \/ \E t \in DOMAIN threads : ApplyTransactionStep(t)

Spec == Init /\ [][Next]_vars

----------------------------------------------------------------------------
(* Properties of the chain.                                                *)

\* C1: every block at position i > 0 of the in-memory chain has a previous
\* hash equal to the hash of the block at position i-1, the block on top of
\* genesis included.
ChainLinked ==
  \A i \in 2..Len(blocks) : blocks[i].PreviousHash = blocks[i - 1].Hash

\* C2: every block appended at height > 0 carries the hash of its header
\* fields, and that hash starts with at least `difficulty` '0' characters.
AppendedBlocksHaveProofOfWork ==
  \A i \in 2..Len(blocks) : PowValidateBlock(blocks[i], difficulty) = "nil"

\* the transactions of the chain's blocks
CommittedTxs == UNION {{blocks[i].Transactions[j] : j \in 1..Len(blocks[i].Transactions)}
                       : i \in 1..Len(blocks)}

\* C5: every non-coinbase transaction in the mempool or in a block of the
\* chain has a signature that verifies over DataToSign() under the key
\* decoded from its from address.
AcceptedTxsAreSigned ==
  \A tx \in mempool \cup CommittedTxs : ~IsCoinbase(tx) => VerifyTransactionSignature(tx)

\* C6: every block of the chain contains exactly one coinbase transaction,
\* and it is the block's first transaction.
OneCoinbaseFirst ==
  \A i \in 1..Len(blocks) :
    LET txs == blocks[i].Transactions
    IN  /\ Len(txs) >= 1
        /\ IsCoinbase(txs[1])
        /\ \A j \in 2..Len(txs) : ~IsCoinbase(txs[j])

RECURSIVE SumOfAmounts(_)
SumOfAmounts(txs) ==
  IF txs = <<>> THEN U64Zero ELSE U64Add(Head(txs).Amount, SumOfAmounts(Tail(txs)))

IsNotCoinbase(tx) == ~IsCoinbase(tx)

\* C7: in every block at height > 0 the value minted by coinbase
\* transactions equals the block reward 50 plus the fees of the block's
\* non-coinbase transactions.
MintedIsRewardPlusFees ==
  \A i \in 2..Len(blocks) :
    LET txs == blocks[i].Transactions
    IN  SumOfAmounts(SelectSeq(txs, IsCoinbase))
          = U64Add(U64(BlockReward), SumFees(SelectSeq(txs, IsNotCoinbase)))

\* the step in which the request served on goroutine t is answered
Returns(t) ==
  /\ t \in DOMAIN threads
  /\ t \notin DOMAIN threads'
  /\ last'.op # "main"

\* the same, of a request during which the node served no other
ReturnsAlone(t) == Returns(t) /\ threads[t].alone

\* the goroutines of POST /mine and of a connection that delivers new_block
Appending == {"http", "conn1"}

\* the step in which an operation that appends a block, and that ran with
\* no other beside it, reports success
SuccessfulAppend(t) ==
  /\ ReturnsAlone(t)
  /\ threads[t].op \in {"MineBlock", "AddBlock"}
  /\ last'.err = "nil"

\* the checks POST /tx makes on the UTXO set us before it admits tx to the
\* mempool
Admitted(us, tx) ==
  /\ TxValidate(tx) = "nil"
  /\ VerifyTransactionSignature(tx)
  /\ ValidateTransaction(us, tx) = "nil"

\* C3: a successful MineBlock(M) on a mempool holding one admitted transfer
\* A -> B of amount a and fee f (A, B, M distinct) raises B's balance by a
\* and M's by 50 + f, lowers A's by a + f, and empties the mempool.
MinedTransferMovesBalances ==
  [][SuccessfulAppend("http") =>
       LET before == threads["http"].entry
           m == threads["http"].miner
       IN  \A tx \in before.mempool :
             (/\ before.mempool = {tx}
              /\ ~IsCoinbase(tx)
              /\ Admitted(before.utxos, tx)
              /\ tx.From # tx.To /\ tx.From # m /\ tx.To # m)
             => /\ GetBalance(utxos', tx.To)
                     = U64Add(GetBalance(before.utxos, tx.To), tx.Amount)
                /\ GetBalance(utxos', m)
                     = U64Add(GetBalance(before.utxos, m),
                              U64Add(U64(BlockReward), tx.Fee))
                /\ GetBalance(utxos', tx.From)
                     = U64Sub(GetBalance(before.utxos, tx.From), Total(tx))
                /\ mempool' = {}]_vars

\* the addresses that hold value
BalanceAddresses == WalletAddresses \cup {PreFundedAddress}

\* the balances of the set us are those of every Rebuild of the chain
LiveEqualsRebuilt(us, chain, chainHeight) ==
  \A r \in RebuildOutcomes(chain, chainHeight) :
    /\ r.err = "nil"
    /\ \A a \in BalanceAddresses : GetBalance(us, a) = GetBalance(r.utxos, a)

\* C4: a successful append (by MineBlock or by AddBlock on a gossip block)
\* on a node whose live balances equal those of Rebuild on its chain leaves
\* them equal to those of Rebuild on the longer chain.
AppendKeepsLiveEqualToRebuilt ==
  [][\A t \in Appending :
       (/\ SuccessfulAppend(t)
        /\ LiveEqualsRebuilt(threads[t].entry.utxos, threads[t].entry.blocks,
                             threads[t].entry.height))
       => LiveEqualsRebuilt(utxos', blocks', height')]_vars

\* the ids of the chain's transactions
CommittedIDs == {tx.ID : tx \in CommittedTxs}

\* C9: a transaction already committed in a block of the chain is rejected
\* when it is submitted again: no step adds it to the mempool.
CommittedTxIsRejected ==
  [][\A tx \in mempool' \ mempool : tx.ID \notin CommittedIDs]_vars

\* C9, the consequence: no transaction id occurs in two blocks of the chain.
NoTxInTwoBlocks ==
  \A i \in 1..Len(blocks), j \in 1..Len(blocks) :
    i < j => \A k \in 1..Len(blocks[i].Transactions), l \in 1..Len(blocks[j].Transactions) :
               blocks[i].Transactions[k].ID # blocks[j].Transactions[l].ID

\* C10: after a successful append, by MineBlock or by AddBlock on a gossip
\* block, no transaction of the appended block is in the mempool.
AppendedTxsLeaveMempool ==
  [][(\E t \in Appending : SuccessfulAppend(t))
       => \A tx \in mempool' :
            \A j \in 1..Len(GetLatestBlock(blocks').Transactions) :
              GetLatestBlock(blocks').Transactions[j].ID # tx.ID]_vars

----------------------------------------------------------------------------
(* The UTXO set called directly: ValidateTransaction and ApplyTransaction  *)
(* on a set of outputs and a transaction drawn from bounded sets.          *)

\* the outputs the sets are drawn from: four of A's, one of them of the largest amount, and one of B's
OutputPool ==
  {UTXO(<<"t1">>, AddrA, U64(5), 0), UTXO(<<"t2">>, AddrA, U64(6), 0),
   UTXO(<<"t3">>, AddrA, U64(100), 0), UTXO(<<"t4">>, AddrB, U64(7), 0),
   UTXO(<<"t5">>, AddrA, U64Max, 0)}

\* the transfers A -> B called with: amounts 10 and 2^64 - 1, fees 1 and 2;
\* and a coinbase paying 50 to B
CalledTxs ==
  {CreateAndSignTransaction(AddrA, AddrB, amount, fee, 1)
     : amount \in {U64(10), U64Max}, fee \in {U64(1), U64(2)}}
  \cup {NewCoinbaseTransaction(AddrB, U64(BlockReward), 1)}

\* the number of calls made on an object that is called directly
MaxCalls == 2

InitUTXO ==
  /\ blocks = <<>>
  /\ height = 0
  /\ utxos \in SUBSET OutputPool
  /\ mempool = {}
  /\ store = EmptyStore
  /\ difficulty = 1
  /\ now = 1
  /\ phase = "new"
  /\ last = Result("NewUTXOSet", "nil")
  /\ \E tx \in CalledTxs : call = [tx |-> tx, before |-> utxos]
  /\ Alone

\* UTXOSet.ValidateTransaction(call.tx)
CallValidateTransaction ==
  /\ last.op # "ValidateTransaction"
  /\ last' = Result("ValidateTransaction", ValidateTransaction(utxos, call.tx))
  /\ call' = [call EXCEPT !.before = utxos]
  /\ UNCHANGED <<blocks, height, utxos, mempool, store, difficulty, now, phase, others>>

\* UTXOSet.ApplyTransaction(call.tx)
CallApplyTransaction ==
  /\ now <= MaxCalls
  /\ \E r \in ApplyOutcomes(utxos, call.tx) :
       /\ utxos' = r.utxos
       /\ last' = Result("ApplyTransaction", r.err)
  /\ call' = [call EXCEPT !.before = utxos]
  /\ now' = now + 1
  /\ UNCHANGED <<blocks, height, mempool, store, difficulty, phase, others>>

\* UTXOSet.RevertTransaction: the outputs 0 and 1 of tx are removed; the
\* outputs tx spent are not restored; the result is always nil
RevertTransaction(us, tx) == RemoveUTXO(RemoveUTXO(us, tx.ID, 0), tx.ID, 1)

UTXOToJSON(x) ==
  [tx_id |-> x.TxID, address |-> x.Address, amount |-> FormatU64(x.Amount),
   index |-> FormatInt(x.Index)]

UTXOFromJSON(j) == UTXO(j.tx_id, j.address, ParseU64(j.amount), ParseInt(j.index))

\* a JSON text: an object as the set of its members, or a text that does
\* not parse
JSONObject(members) == [valid |-> TRUE, members |-> members]

MalformedJSON == [valid |-> FALSE, members |-> {}]

\* UTXOSet.Serialize: json.Marshal of the map, an object with one member
\* per transaction id, each an object with one member per output index
Serialize(us) ==
  JSONObject({[key |-> id,
               value |-> {[key |-> FormatInt(x.Index), value |-> UTXOToJSON(x)]
                          : x \in {y \in us : y.TxID = id}}]
              : id \in {x.TxID : x \in us}})

\* UTXOSet.Deserialize: json.Unmarshal into the map the set holds.  The
\* map is not emptied first: a transaction id of the data gets the outputs
\* of the data in place of those it had, every other id keeps its outputs.
\* A text that is not JSON is refused before anything is stored.
Deserialize(us, data) ==
  IF ~data.valid THEN [err |-> "invalid character", utxos |-> us]
  ELSE [err |-> "nil",
        utxos |-> {x \in us : \A m \in data.members : m.key # x.TxID}
                    \cup UNION {{UTXOFromJSON(o.value) : o \in m.value}
                                 : m \in data.members}]

\* the data Deserialize is called with: what Serialize made of the empty
\* set, of B's output, and of a set with another output under the id of
\* one of A's outputs; and a malformed text
SerializedSets ==
  {Serialize(us) : us \in {{}, {UTXO(<<"t4">>, AddrB, U64(7), 0)},
                           {UTXO(<<"t1">>, AddrB, U64(9), 1)}}}
    \cup {MalformedJSON}

\* UTXOSet.RevertTransaction(call.tx)
CallRevertTransaction ==
  /\ now <= MaxCalls
  /\ utxos' = RevertTransaction(utxos, call.tx)
  /\ last' = Result("RevertTransaction", "nil")
  /\ call' = [call EXCEPT !.before = utxos]
  /\ now' = now + 1
  /\ UNCHANGED <<blocks, height, mempool, store, difficulty, phase, others>>

\* UTXOSet.Deserialize(data)
CallDeserialize(data) ==
  /\ now <= MaxCalls
  /\ utxos' = Deserialize(utxos, data).utxos
  /\ last' = Result("Deserialize", Deserialize(utxos, data).err)
  /\ call' = [call EXCEPT !.before = utxos]
  /\ now' = now + 1
  /\ UNCHANGED <<blocks, height, mempool, store, difficulty, phase, others>>

NextUTXO ==
  \/ CallValidateTransaction
  \/ CallApplyTransaction
  \/ CallRevertTransaction
  \/ \E data \in SerializedSets : CallDeserialize(data)

SpecUTXO == InitUTXO /\ [][NextUTXO]_vars

\* amount + fee does not fit 64 bits
TotalWraps(tx) == U64Less(Total(tx), tx.Amount)

\* the errors with which the UTXO set refuses a sender who cannot pay
InsufficientErrors == {"insufficient balance", "sender has no UTXOs"}

\* C8: when the sender's balance is smaller than the true sum amount + fee of
\* a non-coinbase transaction, ValidateTransaction and ApplyTransaction
\* return an insufficient-balance error and leave the UTXO set unchanged.
InsufficientBalanceIsRejected ==
  (/\ last.op \in {"ValidateTransaction", "ApplyTransaction"}
   /\ ~IsCoinbase(call.tx)
   /\ \/ TotalWraps(call.tx)
      \/ U64Less(GetBalance(call.before, call.tx.From), Total(call.tx)))
  => /\ last.err \in InsufficientErrors
     /\ utxos = call.before

----------------------------------------------------------------------------
(* The mempool called directly: AddTransaction and GetTransactions on a    *)
(* mempool and arguments drawn from bounded sets.                          *)

\* the largest limit GetTransactions is called with
MaxLimit == 3

\* transfers of fees 1, 1, 2 and 3, and one that carries the id of another
\* with a different amount (AddTransaction does not recompute the id)
PoolTx(fee, time) == CreateAndSignTransaction(AddrA, AddrB, U64(10), U64(fee), time)

SameIDTx == [PoolTx(2, 1) EXCEPT !.Amount = U64(99)]

PoolTxs == {PoolTx(1, 1), PoolTx(1, 2), PoolTx(2, 1), PoolTx(3, 1), SameIDTx}

\* the states of the map: at most one transaction under each id
Mempools == {mp \in SUBSET PoolTxs : \A t, u \in mp : t.ID = u.ID => t = u}

InitMempool ==
  /\ blocks = <<>>
  /\ height = 0
  /\ utxos = {}
  /\ mempool \in Mempools
  /\ store = EmptyStore
  /\ difficulty = 1
  /\ now = 1
  /\ phase = "new"
  /\ last = Result("NewMempool", "nil")
  /\ call = [tx |-> <<>>, before |-> mempool, limit |-> 0, result |-> <<>>]
  /\ Alone

\* Mempool.AddTransaction(tx)
CallAddTransaction(tx) ==
  /\ now <= MaxCalls
  /\ mempool' = AddTransaction(mempool, tx).mempool
  /\ last' = Result("AddTransaction", AddTransaction(mempool, tx).err)
  /\ call' = [call EXCEPT !.tx = tx, !.before = mempool]
  /\ now' = now + 1
  /\ UNCHANGED <<blocks, height, utxos, store, difficulty, phase, others>>

\* Mempool.GetTransactions(limit)
CallGetTransactions(limit) ==
  /\ now <= MaxCalls
  /\ \E txs \in GetTransactions(mempool, limit) :
       call' = [call EXCEPT !.limit = limit, !.result = txs, !.before = mempool]
  /\ last' = Result("GetTransactions", "nil")
  /\ now' = now + 1
  /\ UNCHANGED <<blocks, height, utxos, mempool, store, difficulty, phase, others>>

\* Mempool.RemoveTransaction(tx.ID)
CallRemoveTransaction(tx) ==
  /\ now <= MaxCalls
  /\ mempool' = RemoveTransaction(mempool, tx.ID)
  /\ last' = Result("RemoveTransaction", "nil")
  /\ call' = [call EXCEPT !.tx = tx, !.before = mempool]
  /\ now' = now + 1
  /\ UNCHANGED <<blocks, height, utxos, store, difficulty, phase, others>>

\* Mempool.Clear(): the map is replaced by an empty one
CallClear ==
  /\ now <= MaxCalls
  /\ mempool' = {}
  /\ last' = Result("Clear", "nil")
  /\ call' = [call EXCEPT !.before = mempool]
  /\ now' = now + 1
  /\ UNCHANGED <<blocks, height, utxos, store, difficulty, phase, others>>

NextMempool ==
  \/ \E tx \in PoolTxs : CallAddTransaction(tx)
  \/ \E limit \in 0..MaxLimit : CallGetTransactions(limit)
  \/ \E tx \in PoolTxs : CallRemoveTransaction(tx)
  \/ CallClear

SpecMempool == InitMempool /\ [][NextMempool]_vars

\* Mempool.Size() of the map mp
Size(mp) == Cardinality({t.ID : t \in mp})

\* C11: AddTransaction(tx) returns an error when the mempool holds a
\* transaction of the same id, and then leaves its contents and Size()
\* unchanged; otherwise it adds exactly tx and Size() grows by one.
AddTransactionRejectsDuplicates ==
  last.op = "AddTransaction" =>
    IF \E t \in call.before : t.ID = call.tx.ID
    THEN /\ last.err # "nil"
         /\ mempool = call.before
         /\ Size(mempool) = Size(call.before)
    ELSE /\ last.err = "nil"
         /\ mempool = call.before \cup {call.tx}
         /\ Size(mempool) = Size(call.before) + 1

\* C11 happens: a transaction that is not in the mempool, under an id that
\* is, was refused
DuplicateIDRefused ==
  /\ last.op = "AddTransaction"
  /\ last.err # "nil"
  /\ call.tx \notin call.before
  /\ mempool = call.before

FeeSorted(txs) == \A i \in 1..(Len(txs) - 1) : ~U64Less(txs[i].Fee, txs[i + 1].Fee)

Min(a, b) == IF a < b THEN a ELSE b

\* C12: GetTransactions(limit) returns min(limit, Size()) distinct mempool
\* transactions in non-increasing fee order, none of them of a smaller fee
\* than a transaction left out, and leaves the mempool unchanged.
GetTransactionsReturnsHighestFees ==
  last.op = "GetTransactions" =>
    LET r == call.result
        returned == {r[i] : i \in 1..Len(r)}
    IN  /\ Len(r) = Min(call.limit, Size(call.before))
        /\ Cardinality(returned) = Len(r)
        /\ returned \subseteq call.before
        /\ FeeSorted(r)
        /\ \A t \in returned, u \in call.before \ returned : ~U64Less(t.Fee, u.Fee)
        /\ mempool = call.before

\* C12 happens: a limit below the size cut a result of several fees, and
\* two transactions of the same fee both exist
HighestFeesCut ==
  /\ last.op = "GetTransactions"
  /\ call.limit = 2
  /\ Size(call.before) = 4
  /\ Len(call.result) = 2
  /\ call.result[1].Fee # call.result[2].Fee

----------------------------------------------------------------------------
(* Properties of MineBlock's failures.                                     *)

\* the step in which POST /mine answers with the error Miner.MineBlock has
\* returned, no other request having been served during the call
MineBlockFails ==
  /\ ReturnsAlone("http")
  /\ threads["http"].err # "nil"

\* C13: whenever MineBlock returns an error, whichever step failed, the
\* chain's block list and height are what they were before the call.
FailedMineLeavesChain ==
  [][MineBlockFails => /\ blocks' = threads["http"].entry.blocks
                       /\ height' = threads["http"].entry.height]_vars

\* the step in which POST /mine answers after a MineBlock in which AddBlock
\* appended the block and the UTXOSet.Update that follows it returned an
\* error
UpdateFailsAfterAddBlock ==
  /\ Returns("http")
  /\ threads["http"].warned

\* C14: when UTXOSet.Update fails after AddBlock succeeded inside MineBlock,
\* MineBlock does not return success and the node stops.
FailedUpdateStopsNode ==
  [][UpdateFailsAfterAddBlock => last'.err # "nil" /\ phase' = "exited"]_vars

----------------------------------------------------------------------------
(* The threads of one running node in fixed scenarios: two operations that *)
(* start together on a node at height 0.                                   *)

\* the blocks two peers send to a node at height 0: mined at index 1, on
\* the tip or on a foreign hash; one of them has no transactions
GossipBlocks ==
  LET tip == GetLatestBlock(blocks).Hash
  IN  {PeerMinedBlock(1, <<PeerCoinbase(U64(50))>>, tip),
       PeerMinedBlock(1, <<>>, tip),
       PeerMinedBlock(1, <<PeerCoinbase(U64(53)), ForgedTransfer>>, tip),
       PeerMinedBlock(1, <<PeerCoinbase(U64(51)), SignedTransfer>>, tip),
       PeerMinedBlock(1, <<PeerCoinbase(U64(51)), SignedTransfer>>, ForeignHash)}

\* the threads that run together: POST /mine and the loop of Miner.Start;
\* POST /mine and a gossip block; two gossip blocks; Rebuild and a gossip
\* block; two calls of ApplyTransaction for one sender; a broadcast (or
\* Stop) and POST /peers
Scenarios ==
  {("http" :> NewThread("MineBlock", "select", <<>>, <<>>))
     @@ ("loop" :> NewThread("MineBlock", "select", <<>>, <<>>))}
  \cup {("http" :> NewThread("MineBlock", "select", <<>>, <<>>))
          @@ ("conn1" :> NewThread("AddBlock", "addblock", b, <<>>)) : b \in GossipBlocks}
  \cup {("conn1" :> NewThread("AddBlock", "addblock", b1, <<>>))
          @@ ("conn2" :> NewThread("AddBlock", "addblock", b2, <<>>))
        : <<b1, b2>> \in {p \in GossipBlocks \X GossipBlocks : p[1] # p[2]}}
  \cup {("main" :> NewThread("Rebuild", "rebuild", <<>>, <<>>))
          @@ ("conn1" :> NewThread("AddBlock", "addblock", b, <<>>)) : b \in GossipBlocks}
  \cup {("conn1" :> NewThread("ApplyTransaction", "apply", <<>>, <<ForgedTransfer>>))
          @@ ("conn2" :> NewThread("ApplyTransaction", "apply", <<>>, <<tx>>))
        : tx \in {DrainTransfer, SignedTransfer}}
  \cup {("conn1" :> NewThread(op, "range", <<>>, <<>>))
          @@ ("http" :> NewThread("AddPeer", "connect", <<>>, <<>>))
        : op \in {"BroadcastTransaction", "BroadcastBlock"}}
  \cup {("main" :> NewThread("Stop", "halt", <<>>, <<>>))
          @@ ("http" :> NewThread("AddPeer", "connect", <<>>, <<>>))}
  \cup {("loop" :> NewThread("MineBlock", "select", <<>>, <<>>))
          @@ ("main" :> NewThread("Miner.Stop", "stop", <<>>, <<>>))}

\* a node that main() has booted on an empty archive, with one transaction
\* in its mempool, one peer and its listener started, and the threads of
\* one scenario
InitThreads ==
  LET genesis == NewGenesisBlock(1)
  IN  /\ blocks = <<genesis>>
      /\ height = 0
      /\ utxos \in ApplyIgnoringErrors({}, genesis.Transactions)
      /\ mempool = {ForgedTransfer}
      /\ store = SaveBlock(EmptyStore, genesis.Index, genesis.Hash, BlockToJSON(genesis))
      /\ difficulty = 1
      /\ now = 2
      /\ phase = "running"
      /\ last = Result("Rebuild", "nil")
      /\ call = [tx |-> <<>>, before |-> utxos, spent |-> {}]
      /\ threads \in Scenarios
      /\ locks = NoLocks
      /\ peers = <<"N2">>
      /\ net = [running |-> TRUE, listener |-> "open"]

NextThreads ==
  \/ \E t \in DOMAIN threads : MineBlockStep(t)
  \/ \E t \in DOMAIN threads : StopStep(t)
  \/ \E t \in DOMAIN threads, saveFails \in BOOLEAN : AddBlockStep(t, saveFails)
  \/ \E t \in DOMAIN threads : ApplyTransactionStep(t)
  \/ \E t \in DOMAIN threads : RebuildStep(t)
  \/ \E t \in DOMAIN threads : RangePeersStep(t)
  \/ \E t \in DOMAIN threads, connected \in BOOLEAN : AddPeerStep(t, "N3", connected)

SpecThreads == InitThreads /\ [][NextThreads]_vars

----------------------------------------------------------------------------
(* Properties of the threads of one node.                                  *)

\* the positions of the chain that hold a transaction with the ID of tx
BlocksCommitting(tx) ==
  {i \in DOMAIN blocks :
     \E j \in DOMAIN blocks[i].Transactions : blocks[i].Transactions[j].ID = tx.ID}

\* C15: the steps AddBlock, Update and mempool removal of MineBlock are
\* atomic with respect to other appenders, so two concurrent MineBlock calls
\* (POST /mine and the loop of Miner.Start) never commit the same mempool
\* transaction in two blocks.
MinersCommitTxOnce ==
  (\A t \in DOMAIN threads : threads[t].op = "MineBlock")
    => \A tx \in SubmittedTxs : Cardinality(BlocksCommitting(tx)) <= 1

\* every thread has returned
Finished == \A t \in DOMAIN threads : threads[t].pc = "done"

\* the threads are two connections that each call AddBlock on a gossip block
TwoAppenders == \A t \in DOMAIN threads : threads[t].op = "AddBlock"

\* the threads whose block is in the chain
Appended == {t \in DOMAIN threads : \E i \in DOMAIN blocks : blocks[i] = threads[t].block}

\* what a reader sees (GetHeight, GetLatestBlock, GetBlock take the chain
\* mutex for reading): the height is the number of stored blocks less one
ReadersSeeHeightOfBlocks == locks.chain = "free" => height = Len(blocks) - 1

\* C16 as stated: of two different self-valid blocks with index height+1
\* submitted concurrently, exactly one is appended and the other is rejected,
\* and no reader observes a height that disagrees with the stored blocks.
ExactlyOneAppended ==
  /\ ReadersSeeHeightOfBlocks
  /\ TwoAppenders /\ Finished
       => /\ Cardinality(Appended) = 1
          /\ \A t \in DOMAIN threads \ Appended : threads[t].err # "nil"

\* C16, amended: at most one of the two blocks is appended (none when the
\* transactions of neither apply to the UTXO set), every call whose block is
\* not appended returns an error, and no reader observes a height that
\* disagrees with the stored blocks.
AtMostOneAppended ==
  /\ ReadersSeeHeightOfBlocks
  /\ TwoAppenders /\ Finished
       => /\ Cardinality(Appended) <= 1
          /\ \A t \in DOMAIN threads \ Appended : threads[t].err # "nil"

\* two blocks were submitted together, one was appended and the other
\* refused for its index
OneAppendedOneRefused ==
  /\ TwoAppenders /\ Finished
  /\ Cardinality(Appended) = 1
  /\ \E t \in DOMAIN threads \ Appended : threads[t].err = "invalid block"

\* the next step of thread t requests the chain mutex (Lock in AddBlock,
\* RLock in GetLatestBlock, GetHeight and GetBlock)
RequestsChainLock(t) ==
  \/ threads[t].pc \in {"addblock", "tip", "build", "getheight"}
  \/ threads[t].pc = "getblock" /\ threads[t].i <= threads[t].h

\* the next step of thread t requests the UTXO mutex
RequestsUTXOLock(t) == threads[t].pc \in {"rebuild", "relock", "apply", "spend", "pay", "change"}

\* one thread holds the UTXO mutex and waits for the chain mutex, which is
\* held by a thread that waits for the UTXO mutex
Deadlocked ==
  \E t, u \in DOMAIN threads :
    /\ locks.utxo = t /\ RequestsChainLock(t)
    /\ locks.chain = u /\ RequestsUTXOLock(u)

\* C17: no thread requests the chain lock while it holds the UTXO lock (the
\* order is chain, then UTXO), so Rebuild running concurrently with AddBlock
\* never reaches a state where each waits for the lock the other holds.
RebuildAndAddBlockNeverDeadlock == ~Deadlocked

\* the threads are two direct calls of ApplyTransaction
TwoAppliers == \A t \in DOMAIN threads : threads[t].op = "ApplyTransaction"

\* the sets that ApplyTransaction(first) followed by ApplyTransaction(second)
\* can leave, starting from the set us
AppliedInOrder(us, first, second) ==
  UNION {{r2.utxos : r2 \in ApplyOutcomes(r1.utxos, second)} : r1 \in ApplyOutcomes(us, first)}

\* C18: the select / remove / insert sequence of ApplyTransaction is atomic
\* with respect to every other UTXO writer, so two concurrent calls for the
\* same sender never both spend the same UTXO and leave the set that some
\* serial order of the two calls leaves.
ConcurrentApplyIsSerial ==
  TwoAppliers /\ Finished
    => \E t, u \in DOMAIN threads :
         /\ t # u
         /\ utxos \in AppliedInOrder(call.before, threads[t].txs[1], threads[u].txs[1])

\* the next step of thread t reads n.peers (the range statement of
\* BroadcastTransaction, BroadcastBlock and Stop) without the node's mutex
ReadsPeersUnlocked(t) == threads[t].pc = "range" /\ locks.peers # t

\* C19: every read and write of the peer list is made holding the node's
\* reader/writer lock: BroadcastTransaction, BroadcastBlock and Stop never
\* read the list while a concurrent AddPeer is appending to it.
PeerListReadExcludesAppend ==
  \A t, u \in DOMAIN threads : ~(ReadsPeersUnlocked(t) /\ threads[u].pc = "appendpeer")

----------------------------------------------------------------------------
(* A network of three nodes with synchronised chains.  net[n] is node n:   *)
(* whether its listener runs, Node.peers (the connections it dialled), its *)
(* mempool, and for each node m the frames written by m on its connection  *)
(* to n that n's handleConnection has not read yet.                        *)

Nodes == {"N1", "N2", "N3"}

\* the --peers argument of each node
BootstrapPeers == [n \in Nodes |-> CASE n = "N1" -> <<>>
                                     [] n = "N2" -> <<"N1">>
                                     [] n = "N3" -> <<"N1", "N2">>]

\* the miner_address each node's client gives to POST /mine
MinerOf == [n \in Nodes |-> CASE n = "N1" -> AddrA
                              [] n = "N2" -> AddrB
                              [] n = "N3" -> AddrM]

\* the transactions clients post: signed by A
PostedTxs == {SignedTransfer}

\* three machines, no process started
InitNet ==
  /\ blocks = <<>>
  /\ height = 0
  /\ utxos = {}
  /\ mempool = {}
  /\ store = EmptyStore
  /\ difficulty = 1
  /\ now = 1
  /\ phase = "running"
  /\ last = Result("main", "nil")
  /\ call = [tx |-> <<>>, before |-> {}, node |-> ""]
  /\ threads = <<>>
  /\ locks = NoLocks
  /\ peers = <<>>
  /\ net = [n \in Nodes |-> [running |-> FALSE, peers |-> <<>>, mempool |-> {},
                             blocks |-> <<>>, height |-> 0, utxos |-> {},
                             lock |-> "free", threads |-> <<>>,
                             in |-> [m \in Nodes |-> <<>>],
                             main |-> "none", dial |-> <<>>]]

\* main() of node n on an empty archive that works, up to the call of
\* p2p.NewNode: Initialize (createGenesisBlock) and Rebuild.  main is the
\* position of main(); dial holds the bootstrap addresses NewNode has
\* still to connect to.
StartNode(n) ==
  /\ net[n].main = "none"
  /\ LET genesis == NewGenesisBlock(now)
     IN  \E r \in RebuildOutcomes(<<genesis>>, 0) :
           /\ r.err = "nil"
           /\ net' = [net EXCEPT ![n].main = "NewNode",
                                 ![n].dial = BootstrapPeers[n],
                                 ![n].blocks = <<genesis>>,
                                 ![n].utxos = r.utxos]
  /\ now' = now + 1
  /\ UNCHANGED <<blocks, height, utxos, mempool, store, difficulty, phase, last, call,
                 threads, locks, peers>>

\* one turn of the loop of p2p.NewNode in main() of node n: Peer.Connect
\* dials the next bootstrap address; the peer is appended when the dial
\* succeeds and dropped when nobody listens there at that moment
NewNodeConnect(n) ==
  /\ net[n].main = "NewNode"
  /\ net[n].dial # <<>>
  /\ net' = [net EXCEPT ![n].dial = Tail(@),
                        ![n].peers = IF net[Head(net[n].dial)].running
                                     THEN Append(@, Head(net[n].dial)) ELSE @]
  /\ UNCHANGED <<blocks, height, utxos, mempool, store, difficulty, now, phase, last,
                 call, threads, locks, peers>>

\* Node.Start in main() of node n, after NewNode has returned: net.Listen,
\* running = true and the goroutine that accepts connections
NodeStart(n) ==
  /\ net[n].main = "NewNode"
  /\ net[n].dial = <<>>
  /\ net' = [net EXCEPT ![n].main = "serving", ![n].running = TRUE]
  /\ UNCHANGED <<blocks, height, utxos, mempool, store, difficulty, now, phase, last,
                 call, threads, locks, peers>>

\* the frame of a goroutine of a node of the network: msg is the frame it
\* sends on, queue the peers it has still to write to (for AddPeer, the
\* peer it is about to append)
NetThread(op, pc) ==
  [op |-> op, in |-> op, pc |-> pc, msg |-> <<>>, queue |-> <<>>, txs |-> <<>>,
   apply |-> <<>>, block |-> <<>>, tip |-> <<>>, h |-> 0, spend |-> <<>>,
   change |-> U64Zero]

\* the goroutines of node n but t
NetGone(n, t) == [u \in DOMAIN net[n].threads \ {t} |-> net[n].threads[u]]

\* the goroutines of node n with the frame of t replaced by f
NetMoved(n, t, f) == (t :> f) @@ NetGone(n, t)

\* Server.handleAddPeer (POST /peers) on node n, on the goroutine "peers":
\* Node.AddPeer(p) connects (an error when nobody listens) and takes n.mu;
\* then it writes n.peers = append(n.peers, peer) and unlocks
AddPeerOn(n, p) ==
  /\ net[n].running
  /\ p # n
  /\ \/ /\ "peers" \notin DOMAIN net[n].threads
        /\ net' = IF net[p].running
                  THEN [net EXCEPT ![n].threads =
                          NetMoved(n, "peers", [NetThread("AddPeer", "appendpeer")
                                                  EXCEPT !.queue = <<p>>])]
                  ELSE net
     \/ /\ "peers" \in DOMAIN net[n].threads
        /\ net[n].threads["peers"].queue = <<p>>
        /\ net' = [net EXCEPT ![n].peers = Append(@, p),
                              ![n].threads = NetGone(n, "peers")]
  /\ UNCHANGED <<blocks, height, utxos, mempool, store, difficulty, now, phase, last, call,
                 threads, locks, peers>>

\* Server.handleBroadcastTransaction (POST /tx) on node n, on the goroutine
\* "post", up to the call of AddTransaction
PostTx(n, tx) ==
  /\ net[n].running
  /\ "post" \notin DOMAIN net[n].threads
  /\ LET err == IF TxValidate(tx) # "nil" THEN "invalid transaction"
                ELSE IF ~VerifyTransactionSignature(tx) THEN "invalid signature"
                ELSE IF ValidateTransaction(net[n].utxos, tx) # "nil"
                     THEN "transaction validation failed"
                ELSE "nil"
     IN  IF err # "nil"
         THEN /\ last' = Result("POST /tx", err)
              /\ call' = [tx |-> tx, before |-> {}, node |-> n]
              /\ UNCHANGED net
         ELSE /\ net' = [net EXCEPT ![n].threads =
                           NetMoved(n, "post", [NetThread("POST /tx", "add")
                                                  EXCEPT !.txs = <<tx>>])]
              /\ UNCHANGED <<last, call>>
  /\ UNCHANGED <<blocks, height, utxos, mempool, store, difficulty, now, phase,
                 threads, locks, peers>>

\* Server.handleMine (POST /mine) on node n, on the goroutine "http", up to
\* the call of Miner.MineBlock: GetHeight
MineOn(n) ==
  /\ net[n].running
  /\ DOMAIN net[n].threads \cap {"http", "cast"} = {}
  /\ net[n].lock = "free"
  /\ net' = [net EXCEPT ![n].threads =
               NetMoved(n, "http", [NetThread("MineBlock", "select")
                                      EXCEPT !.h = net[n].height])]
  /\ UNCHANGED <<blocks, height, utxos, mempool, store, difficulty, now, phase, last,
                 call, threads, locks, peers>>

\* Node.handleConnection of node n on the connection from node m, whose
\* goroutine is named m: one frame is read and decoded; handleMessage goes
\* on to AddTransaction or AddBlock, and then sends the payload on
Deliver(n, m) ==
  /\ net[n].in[m] # <<>>
  /\ m \notin DOMAIN net[n].threads
  /\ LET msg == Head(net[n].in[m])
         f == IF msg.type = "new_transaction"
              THEN [NetThread("new_transaction", "add")
                      EXCEPT !.txs = <<TxFromJSON(msg.data)>>,
                             !.msg = [type |-> "new_transaction",
                                      data |-> TxToJSON(TxFromJSON(msg.data))]]
              ELSE [NetThread("AddBlock", "addblock")
                      EXCEPT !.block = BlockFromJSON(msg.data),
                             !.msg = [type |-> "new_block",
                                      data |-> BlockToJSON(BlockFromJSON(msg.data))]]
     IN  net' = [net EXCEPT ![n].in[m] = Tail(@), ![n].threads = NetMoved(n, m, f)]
  /\ UNCHANGED <<blocks, height, utxos, mempool, store, difficulty, now, phase, last,
                 call, threads, locks, peers>>

\* Mempool.AddTransaction as POST /tx calls it, which answers with its
\* error, and as handleMessage calls it, which drops the error; both go on
\* to BroadcastTransaction
AddTransactionOn(n, t) ==
  LET f == net[n].threads[t]
      r == AddTransaction(net[n].mempool, Head(f.txs))
      msg == [type |-> "new_transaction", data |-> TxToJSON(Head(f.txs))]
  IN  /\ f.pc = "add"
      /\ IF t = "post" /\ r.err # "nil"
         THEN /\ net' = [net EXCEPT ![n].threads = NetGone(n, t)]
              /\ last' = Result("POST /tx", r.err)
              /\ call' = [tx |-> Head(f.txs), before |-> {}, node |-> n]
         ELSE /\ net' = [net EXCEPT ![n].mempool = r.mempool,
                                    ![n].threads = NetMoved(n, t,
                                        [f EXCEPT !.pc = "range", !.msg = msg])]
              /\ UNCHANGED <<last, call>>
      /\ UNCHANGED <<blocks, height, utxos, mempool, store, difficulty, now, phase,
                     threads, locks, peers>>

\* the goroutine t of node n is back from its broadcast: POST /tx answers
\* 200, the goroutine of a connection reads on, the goroutine of
\* BroadcastBlock ends
Broadcasted(n, t, nw) ==
  /\ net' = [nw EXCEPT ![n].threads = NetGone(n, t)]
  /\ IF t = "post"
     THEN /\ last' = Result("POST /tx", "nil")
          /\ call' = [tx |-> Head(net[n].threads[t].txs), before |-> {}, node |-> n]
     ELSE UNCHANGED <<last, call>>

\* the values the range statement of a goroutine of node n can read from
\* n.peers, which it reads without n.mu: the list; and, while AddPeer is
\* about to write the slice header, a header with the new length and the
\* old array
NetPeerListReads(n) ==
  {net[n].peers}
    \cup {Append(net[n].peers, Unallocated)
            : u \in {v \in DOMAIN net[n].threads : net[n].threads[v].pc = "appendpeer"}}

\* the process of node n ends on a panic that nothing recovers: its
\* goroutines, its connections and the frames it has not read are gone
Exited(n) ==
  [net EXCEPT ![n].running = FALSE, ![n].threads = <<>>, ![n].lock = "free",
              ![n].peers = <<>>, ![n].in = [m \in Nodes |-> <<>>]]

\* Node.BroadcastTransaction and Node.BroadcastBlock on the goroutine t of
\* node n: the range statement reads n.peers; then one SendMessage per peer
\* writes the frame to the connection n dialled, which nobody reads when
\* the peer's process has ended.  SendMessage on a peer read from outside
\* the array panics at p.mu.Lock(): the HTTP server recovers the panic of
\* a handler and answers 500, any other goroutine ends the process.
BroadcastOn(n, t) ==
  LET f == net[n].threads[t]
      sent == IF net[Head(f.queue)].running
              THEN [net EXCEPT ![Head(f.queue)].in[n] = Append(@, f.msg)]
              ELSE net
  IN  /\ \/ /\ f.pc = "range"
            /\ \E list \in NetPeerListReads(n) :
                 IF list = <<>>
                 THEN Broadcasted(n, t, net)
                 ELSE /\ net' = [net EXCEPT ![n].threads = NetMoved(n, t,
                                     [f EXCEPT !.pc = "send", !.queue = list])]
                      /\ UNCHANGED <<last, call>>
         \/ /\ f.pc = "send" /\ Head(f.queue) # Unallocated
            /\ IF Tail(f.queue) = <<>>
               THEN Broadcasted(n, t, sent)
               ELSE /\ net' = [sent EXCEPT ![n].threads = NetMoved(n, t,
                                   [f EXCEPT !.queue = Tail(@)])]
                    /\ UNCHANGED <<last, call>>
         \/ /\ f.pc = "send" /\ Head(f.queue) = Unallocated
            /\ IF t = "post"
               THEN /\ net' = [net EXCEPT ![n].threads = NetGone(n, t)]
                    /\ last' = Result("POST /tx", "panic")
                    /\ call' = [tx |-> Head(f.txs), before |-> {}, node |-> n]
               ELSE /\ net' = Exited(n)
                    /\ UNCHANGED <<last, call>>
      /\ UNCHANGED <<blocks, height, utxos, mempool, store, difficulty, now, phase,
                     threads, locks, peers>>

\* POST /mine on node n answers with the error err of Miner.MineBlock
MineFailedOn(n, t, err, nw) ==
  /\ net' = [nw EXCEPT ![n].threads = NetGone(n, t)]
  /\ last' = Result("POST /mine", err)
  /\ call' = [tx |-> <<>>, before |-> {}, node |-> n]

\* Blockchain.AddBlock on the goroutine t of node n, whose archive works:
\* Lock and ValidateBlock; (the transactions are applied by
\* ApplyTransactionOn;) append, height++, SaveBlock and the deferred Unlock.
\* MineBlock goes on to UTXOSet.Update, handleMessage to BroadcastBlock
\* whatever AddBlock returned.
AddBlockOn(n, t) ==
  LET f == net[n].threads[t]
  IN  /\ \/ /\ f.pc = "addblock"
            /\ net[n].lock = "free"
            /\ IF ValidateBlock(net[n].blocks, net[n].height, f.block) # "nil"
               THEN IF f.op = "MineBlock"
                    THEN MineFailedOn(n, t, "invalid block", net)
                    ELSE /\ net' = [net EXCEPT ![n].threads[t].pc = "range"]
                         /\ UNCHANGED <<last, call>>
               ELSE /\ net' = [net EXCEPT ![n].lock = t,
                                          ![n].threads = NetMoved(n, t,
                                             [f EXCEPT !.pc = IF f.block.Transactions = <<>>
                                                              THEN "append" ELSE "apply",
                                                       !.in = "AddBlock",
                                                       !.apply = f.block.Transactions])]
                    /\ UNCHANGED <<last, call>>
         \/ /\ f.pc = "append"
            /\ net' = [net EXCEPT ![n].blocks = Append(@, f.block),
                                  ![n].height = @ + 1,
                                  ![n].lock = "free",
                                  ![n].threads = NetMoved(n, t,
                                     IF f.op # "MineBlock" THEN [f EXCEPT !.pc = "range"]
                                     ELSE [f EXCEPT !.pc = IF f.block.Transactions = <<>>
                                                           THEN "remove" ELSE "apply",
                                                    !.in = "Update",
                                                    !.apply = f.block.Transactions])]
            /\ UNCHANGED <<last, call>>
      /\ UNCHANGED <<blocks, height, utxos, mempool, store, difficulty, now, phase,
                     threads, locks, peers>>

\* the frame after ApplyTransaction has returned nil to AddBlock or Update
AppliedOn(f) ==
  LET g == [f EXCEPT !.apply = Tail(@)]
  IN  [g EXCEPT !.pc = IF g.apply # <<>> THEN "apply"
                       ELSE IF f.in = "AddBlock" THEN "append"
                       ELSE "remove"]

\* UTXOSet.ApplyTransaction on the goroutine t of node n, one call of
\* GetUTXOsForAddress, RemoveUTXO or AddUTXO per step.  AddBlock returns its
\* error (and Unlock runs), MineBlock logs the error of Update and goes on.
ApplyTransactionOn(n, t) ==
  LET f == net[n].threads[t]
      tx == Head(f.apply)
      us == net[n].utxos
  IN  /\ \/ /\ f.pc = "apply" /\ IsCoinbase(tx)
            /\ net' = [net EXCEPT ![n].utxos = AddUTXO(us, UTXO(tx.ID, tx.To, tx.Amount, 0)),
                                  ![n].threads = NetMoved(n, t, AppliedOn(f))]
            /\ UNCHANGED <<last, call>>
         \/ /\ f.pc = "apply" /\ ~IsCoinbase(tx)
            /\ \E order \in Orders(GetUTXOsForAddress(us, tx.From)) :
                 LET r == ApplyTransaction(us, tx, order)
                     sel == SelectInputs(order, 1, U64Zero, Total(tx))
                 IN  IF r.err = "nil"
                     THEN /\ net' = [net EXCEPT ![n].threads = NetMoved(n, t,
                                       [f EXCEPT !.pc = "spend",
                                                 !.spend = SubSeq(order, 1, sel[1]),
                                                 !.change = U64Sub(sel[2], Total(tx))])]
                          /\ UNCHANGED <<last, call>>
                     ELSE IF f.in = "Update"
                     THEN /\ net' = [net EXCEPT ![n].threads[t].pc = "remove"]
                          /\ UNCHANGED <<last, call>>
                     ELSE IF f.op = "MineBlock"
                     THEN MineFailedOn(n, t, "failed to apply transaction",
                                       [net EXCEPT ![n].lock = "free"])
                     ELSE /\ net' = [net EXCEPT ![n].lock = "free",
                                                ![n].threads[t].pc = "range"]
                          /\ UNCHANGED <<last, call>>
         \/ /\ f.pc = "spend"
            /\ net' = [net EXCEPT ![n].utxos = RemoveUTXO(us, Head(f.spend).TxID,
                                                          Head(f.spend).Index),
                                  ![n].threads = NetMoved(n, t,
                                     [f EXCEPT !.spend = Tail(@),
                                               !.pc = IF Tail(f.spend) = <<>>
                                                      THEN "pay" ELSE "spend"])]
            /\ UNCHANGED <<last, call>>
         \/ /\ f.pc = "pay"
            /\ net' = [net EXCEPT ![n].utxos = AddUTXO(us, UTXO(tx.ID, tx.To, tx.Amount, 0)),
                                  ![n].threads = NetMoved(n, t,
                                     IF f.change # U64Zero THEN [f EXCEPT !.pc = "change"]
                                     ELSE AppliedOn(f))]
            /\ UNCHANGED <<last, call>>
         \/ /\ f.pc = "change"
            /\ net' = [net EXCEPT ![n].utxos = AddUTXO(us, UTXO(tx.ID, tx.From, f.change, 1)),
                                  ![n].threads = NetMoved(n, t, AppliedOn(f))]
            /\ UNCHANGED <<last, call>>
      /\ UNCHANGED <<blocks, height, utxos, mempool, store, difficulty, now, phase,
                     threads, locks, peers>>

\* Miner.MineBlock around AddBlock and Update, on the goroutine "http" of
\* node n: GetTransactions and the coinbase; GetLatestBlock; GetHeight,
\* NewBlock and the nonce search; one RemoveTransaction per selected
\* transaction.  Then handleMine: GetLatestBlock and the check of its index,
\* the goroutine "cast" of BroadcastBlock and the response.
MineBlockOn(n, t) ==
  LET f == net[n].threads[t]
  IN  /\ f.op = "MineBlock"
      /\ \/ /\ f.pc = "select"
            /\ \E txs \in GetTransactions(net[n].mempool, MineBatchLimit) :
                 net' = [net EXCEPT ![n].threads = NetMoved(n, t,
                           [f EXCEPT !.pc = "tip", !.txs = txs,
                                     !.apply = <<NewCoinbaseTransaction(MinerOf[n],
                                                   U64Add(U64(BlockReward), SumFees(txs)),
                                                   now)>> \o txs])]
            /\ now' = now + 1
            /\ UNCHANGED <<last, call>>
         \/ /\ f.pc = "tip"
            /\ net[n].lock = "free"
            /\ net' = [net EXCEPT ![n].threads = NetMoved(n, t,
                         [f EXCEPT !.pc = "build", !.tip = GetLatestBlock(net[n].blocks)])]
            /\ UNCHANGED <<now, last, call>>
         \/ /\ f.pc = "build"
            /\ net[n].lock = "free"
            /\ LET mined == Mine(NewBlock(net[n].height + 1, f.apply, f.tip.Hash,
                                          difficulty, now), difficulty)
               IN  /\ mined.found
                   /\ net' = [net EXCEPT ![n].threads = NetMoved(n, t,
                                [f EXCEPT !.pc = "addblock", !.block = mined.block])]
            /\ UNCHANGED <<now, last, call>>
         \/ /\ f.pc = "remove" /\ f.txs # <<>>
            /\ net' = [net EXCEPT ![n].mempool = RemoveTransaction(@, Head(f.txs).ID),
                                  ![n].threads = NetMoved(n, t, [f EXCEPT !.txs = Tail(@)])]
            /\ UNCHANGED <<now, last, call>>
         \/ /\ f.pc = "remove" /\ f.txs = <<>>
            /\ net[n].lock = "free"
            /\ LET latestBlock == GetLatestBlock(net[n].blocks)
                   cast == [NetThread("BroadcastBlock", "range")
                              EXCEPT !.msg = [type |-> "new_block",
                                              data |-> BlockToJSON(latestBlock)]]
               IN  IF latestBlock.Index # f.h + 1
                   THEN MineFailedOn(n, t, "block was not added to chain", net)
                   ELSE /\ net' = [net EXCEPT ![n].threads = ("cast" :> cast) @@ NetGone(n, t)]
                        /\ last' = Result("POST /mine", "nil")
                        /\ call' = [tx |-> <<>>, before |-> {}, node |-> n]
            /\ UNCHANGED now
      /\ UNCHANGED <<blocks, height, utxos, mempool, store, difficulty, phase,
                     threads, locks, peers>>

\* every process of the network has started
AllRunning == \A n \in Nodes : net[n].running

\* the processes are launched in the order N1, N2, N3, each at any time
\* after the one before it, and run side by side: a node may dial a peer
\* before or after that peer listens.  Once all listen, clients post to N1 a
\* transaction that its mempool does not hold, ask N1 or N3 to mine while
\* its chain holds only genesis, and may give N1 the peer N2, once
NextNet ==
  \/ \E n \in Nodes :
       /\ \A i \in DOMAIN BootstrapPeers[n] : net[BootstrapPeers[n][i]].main # "none"
       /\ StartNode(n)
  \/ \E n \in Nodes : NewNodeConnect(n)
  \/ \E n \in Nodes : NodeStart(n)
  \/ \E n \in {"N1"}, p \in {"N2"} :
       AllRunning /\ net[n].peers = BootstrapPeers[n] /\ AddPeerOn(n, p)
  \/ \E n \in {"N1"}, tx \in PostedTxs :
       AllRunning /\ ~MempoolHas(net[n].mempool, tx.ID) /\ PostTx(n, tx)
  \/ \E n \in {"N1", "N3"} : AllRunning /\ net[n].height = 0 /\ MineOn(n)
  \/ \E n, m \in Nodes : Deliver(n, m)
  \/ \E n \in Nodes : \E t \in DOMAIN net[n].threads : AddTransactionOn(n, t)
  \/ \E n \in Nodes : \E t \in DOMAIN net[n].threads : BroadcastOn(n, t)
  \/ \E n \in Nodes : \E t \in DOMAIN net[n].threads : AddBlockOn(n, t)
  \/ \E n \in Nodes : \E t \in DOMAIN net[n].threads : ApplyTransactionOn(n, t)
  \/ \E n \in Nodes : \E t \in DOMAIN net[n].threads : MineBlockOn(n, t)

SpecNet == InitNet /\ [][NextNet]_vars

\* no frame is in flight and no goroutine has a request or a frame in hand
Quiescent == \A n \in Nodes : /\ \A m \in Nodes : net[n].in[m] = <<>>
                              /\ DOMAIN net[n].threads = {}

\* C20: with N2 started with N1 as bootstrap peer and N3 with N1 and N2, a
\* valid signed transaction posted to N1 is eventually in the mempools of N2
\* and N3: once every frame written has been delivered, both hold it.
PostedToN1ReachesAll ==
  /\ net["N2"].peers = <<"N1">>
  /\ net["N3"].peers = <<"N1", "N2">>
  /\ last = Result("POST /tx", "nil") /\ call.node = "N1"
  /\ Quiescent
  => \A n \in {"N2", "N3"} : MempoolHas(net[n].mempool, call.tx.ID)

\* C22: two freshly booted nodes, started at different times, construct the
\* identical genesis block: same coinbase id, same merkle root and same
\* hash, with previous hash "0", difficulty 1 and nonce 0.
GenesisIsDeterministic ==
  \A n, m \in Nodes :
    net[n].running /\ net[m].running
      => LET g == net[n].blocks[1]
             h == net[m].blocks[1]
         IN  /\ g.Transactions[1].ID = h.Transactions[1].ID
             /\ g.MerkleRoot = h.MerkleRoot
             /\ g.Hash = h.Hash
             /\ g.PreviousHash = GenesisPreviousHash /\ g.Difficulty = 1 /\ g.Nonce = 0

\* node n holds a block that the miner of N1 mined
HoldsBlockOfN1(n) ==
  \E i \in DOMAIN net[n].blocks : net[n].blocks[i].Transactions[1].To = MinerOf["N1"]

\* the three-node topology: every bootstrap dial of N2 and N3 succeeded
EveryDialSucceeded ==
  \A n \in {"N2", "N3"} : net[n].peers = BootstrapPeers[n]

\* the topology is in place, N3 was the only node to mine, its POST /mine
\* succeeded and every frame written since has been read
OnlyN3Mined ==
  /\ EveryDialSucceeded
  /\ AllRunning /\ Quiescent
  /\ last = Result("POST /mine", "nil") /\ call.node = "N3"
  /\ \A n \in Nodes : ~HoldsBlockOfN1(n)

\* C21: in the three-node topology, all nodes freshly booted, after N3 mined
\* a block N1 and N2 eventually hold a block at the same height with the
\* same hash, and the three nodes agree on the hash of every block below it
\* (genesis included).
MinedOnN3ReachesAll ==
  OnlyN3Mined
    => \A n \in {"N1", "N2"} :
         /\ net[n].height = net["N3"].height
         /\ Len(net[n].blocks) = Len(net["N3"].blocks)
         /\ \A i \in DOMAIN net[n].blocks : net[n].blocks[i].Hash = net["N3"].blocks[i].Hash

\* node a has a connection to node b in its peer list
Dials(a, b) == \E i \in DOMAIN net[a].peers : net[a].peers[i] = b

\* node n lies on a directed cycle of the peer graph
OnCycle(n) ==
  \E b \in Nodes : /\ Dials(n, b)
                   /\ \/ Dials(b, n)
                      \/ \E c \in Nodes : Dials(b, c) /\ Dials(c, n)

\* this step is node n reading a frame of its connection from node m
Reads(n, m) == Len(net'[n].in[m]) < Len(net[n].in[m])

\* node n has a frame to read, or one in hand that it has not sent on to
\* every peer
Busy(n) ==
  \/ \E m \in Nodes : net[n].in[m] # <<>>
  \/ DOMAIN net[n].threads \cap Nodes # {}

\* the goroutine of node n for its connection from m, which has a frame in
\* hand, makes a step of its broadcast or none: the range statement takes
\* the peer list, SendMessage writes the frame to the next peer of it (no
\* one reads what is written to a process that has ended), and the
\* goroutine is back only when it has written to the last
ForwardsToAll(n, m) ==
  LET f == net[n].threads[m]
      back == m \notin DOMAIN net'[n].threads
      written == net'[Head(f.queue)].in[n]
                   = IF net[Head(f.queue)].running
                     THEN Append(net[Head(f.queue)].in[n], f.msg)
                     ELSE net[Head(f.queue)].in[n]
  IN  /\ back => \/ f.pc = "range" /\ net[n].peers = <<>>
                 \/ f.pc = "send" /\ Tail(f.queue) = <<>> /\ Head(f.queue) \in Nodes
                      /\ written
      /\ ~back =>
           LET g == net'[n].threads[m]
           IN  /\ g.msg = f.msg
               /\ (f.pc = "range" /\ g.pc # "range")
                    => g.pc = "send" /\ g.queue \in NetPeerListReads(n)
               /\ (f.pc = "send" /\ g.queue # f.queue)
                    => g.pc = "send" /\ g.queue = Tail(f.queue) /\ written

\* this step, every frame read is taken in hand, every frame in hand is
\* sent on, and a node of a directed cycle that has a frame to read or in
\* hand leaves one that has
FloodsOn ==
  /\ \A n, m \in Nodes :
       /\ Reads(n, m) => /\ m \in DOMAIN net'[n].threads
                         /\ net'[n].threads[m].msg = Head(net[n].in[m])
                         /\ net'[n].threads[m].pc \in {"add", "addblock"}
       /\ m \in DOMAIN net[n].threads => ForwardsToAll(n, m)
  /\ (\E n \in Nodes : OnCycle(n) /\ Busy(n))
       => (\E n \in Nodes : OnCycle(n)' /\ Busy(n)') /\ ~Quiescent'

\* this step ends the process of a node
ProcessExits == \E n \in Nodes : net[n].running /\ ~net'[n].running

\* every step in which no process ends floods: the frame read is sent on
\* whatever AddTransaction or AddBlock returned
MessageIsForwardedWhileNodesRun == [][~ProcessExits => FloodsOn]_vars

\* C24: a node that receives a well-formed new_transaction or new_block
\* message sends the same message on to every peer of its list, whether or
\* not its mempool or chain accepted the payload; so once a message is on
\* its way to a node of a directed cycle of the peer graph, or in the hands
\* of one, the same is true after every step: the network is never
\* quiescent again.
EveryMessageIsForwarded == [][FloodsOn]_vars

\* ---------------------------------------------------------------------
\* Startup of a fresh node

\* startup has run Initialize (and possibly Rebuild) without an error; in
\* Spec the archive is empty when Initialize runs
FreshlyBooted ==
  /\ last.err = "nil"
  /\ threads = <<>>
  /\ \/ last.op = "Initialize" /\ phase = "initialized"
     \/ last.op = "Rebuild" /\ phase = "running"

\* C23: after Initialize on an empty archive, and still after the Rebuild
\* that startup runs next, the height is 0, the chain holds exactly one
\* block with previous hash "0", difficulty 1 and a single coinbase
\* transaction, the UTXO set holds exactly one output and the pre-funded
\* address's balance is exactly 1000000.
FreshNodeHoldsGenesis ==
  FreshlyBooted =>
    /\ height = 0
    /\ Len(blocks) = 1
    /\ blocks[1].PreviousHash = GenesisPreviousHash
    /\ blocks[1].Difficulty = 1
    /\ Len(blocks[1].Transactions) = 1
    /\ IsCoinbase(blocks[1].Transactions[1])
    /\ Cardinality(utxos) = 1
    /\ GetBalance(utxos, PreFundedAddress) = U64(GenesisSupply)

\* startup has rebuilt the UTXO set from the genesis block
RebuiltFreshNode ==
  /\ last = Result("Rebuild", "nil")
  /\ phase = "running"
  /\ store # EmptyStore
  /\ GetBalance(utxos, PreFundedAddress) = U64(GenesisSupply)


\* ---------------------------------------------------------------------
\* Stopping the node and starting it again over the same archive

NextRestart ==
  \/ Restart
  \/ \E saveFails \in BOOLEAN : Initialize(saveFails)
  \/ Rebuild
  \/ \E a \in MinerAddresses : handleMine(a)
  \/ handleMineResponse
  \/ ReadsNewBlock /\ \E b \in PeerBlocks : handleNewBlock(b)
  \/ handleNewBlockReturn
  \/ \E t \in DOMAIN threads : MineBlockStep(t)
  \/ \E t \in DOMAIN threads, saveFails \in BOOLEAN :
       ArchiveFails(t, saveFails) /\ AddBlockStep(t, saveFails)
  \/ \E t \in DOMAIN threads : ApplyTransactionStep(t)

SpecRestart == Init /\ [][NextRestart]_vars

\* the node has been stopped and main() has not yet called Initialize
Stopped == phase = "new" /\ "stopped" \in DOMAIN call

\* the archive holds every block of the chain at its position
ArchiveHolds(st, chain) ==
  /\ chain # <<>>
  /\ st.height = Len(chain) - 1
  /\ \A i \in DOMAIN chain :
       /\ StoreHasBlock(st, i - 1)
       /\ st.index[i - 1] = BlockToJSON(chain[i])

\* the two chains have the same length and the same hash at every position
SameHashes(a, b) ==
  /\ Len(a) = Len(b)
  /\ \A i \in DOMAIN a : a[i].Hash = b[i].Hash

\* C27: when the archive holds every block of the chain the stopped node
\* had, Initialize on a new Blockchain over that archive yields a chain of
\* the same height with the same block hash at every position, the
\* genesis of a chain of height 0 included.
RestartKeepsChain ==
  [][(Stopped /\ ArchiveHolds(store, call.stopped) /\ last'.op = "Initialize")
     => /\ height' = Len(call.stopped) - 1
        /\ SameHashes(blocks', call.stopped)]_vars

\* the same for the chains that hold a mined block
RestartKeepsMinedChain ==
  [][(Stopped /\ ArchiveHolds(store, call.stopped) /\ Len(call.stopped) > 1
        /\ last'.op = "Initialize")
     => /\ height' = Len(call.stopped) - 1
        /\ SameHashes(blocks', call.stopped)]_vars


\* the chain object is in use: Initialize has returned without an error
\* (main ends the process when Initialize returns one)
ChainInUse == phase \in {"initialized", "running"}

\* the height counter is the last position and every block sits at its index
WellIndexed(chain, chainHeight) ==
  /\ chainHeight = Len(chain) - 1
  /\ \A i \in DOMAIN chain : chain[i].Index = i - 1

\* a is a prefix of b
IsPrefix(a, b) ==
  /\ Len(a) <= Len(b)
  /\ \A i \in DOMAIN a : a[i] = b[i]

\* the step that ends the process; main() then builds a new Blockchain
ProcessEnds == phase # "new" /\ phase' = "new"

\* the step in which AddBlock on goroutine t has taken the chain mutex and
\* its block has passed ValidateBlock
AddBlockValidated(t) ==
  /\ threads[t].pc = "addblock"
  /\ locks.chain = "free"
  /\ locks'.chain = t

\* the step in which AddBlock on goroutine t, past its append and its
\* height++, calls SaveBlock and returns, nil or the error of the archive;
\* the deferred Unlock releases the chain mutex
AddBlockUnlocks(t) ==
  /\ threads[t].pc = "save"
  /\ locks.chain = t
  /\ t \in DOMAIN threads'
  /\ locks'.chain = "free"

\* an AddBlock call that gets past ValidateBlock finds a chain whose last
\* position is one below the index of its block; when it returns after
\* SaveBlock the chain is one block longer, with its block last, and the
\* height is one higher.  No other goroutine changes the chain in between:
\* the mutex is held from the one step to the other.
AddBlockAddsOne(t) ==
  /\ AddBlockValidated(t) => /\ Len(blocks) = threads[t].block.Index
                             /\ height + 1 = threads[t].block.Index
  /\ AddBlockUnlocks(t) => /\ Len(blocks') = threads[t].block.Index + 1
                           /\ height' = threads[t].block.Index
                           /\ blocks'[Len(blocks')] = threads[t].block

\* C28 as stated: in every reachable state the height counter equals
\* len(blocks) - 1 and the block at position i has index i; the chain before
\* any step is a prefix of the chain after it, and each successful AddBlock
\* adds exactly one block and raises the height by exactly one.
ChainIsAppendOnlyInEveryState ==
  /\ []WellIndexed(blocks, height)
  /\ [][/\ IsPrefix(blocks, blocks')
        /\ \A t \in DOMAIN threads : AddBlockAddsOne(t)]_vars

\* C28, amended: from the return of Initialize without an error on, in every
\* state in which no AddBlock call holds the chain mutex (the states the
\* readers find), the height counter equals len(blocks) - 1 and the block at
\* position i has index i.  Within a run of the process, the state before
\* Initialize included, every step leaves the chain it found as a prefix of
\* the chain it leaves (no block is removed, replaced or reordered) and
\* does not lower the height; and each AddBlock call that returns nil, or
\* only the error of the archive, has added exactly one block, its own, and
\* raised the height by exactly one between taking and releasing the mutex.
ChainIsAppendOnly ==
  [][/\ (ChainInUse' /\ locks'.chain = "free") => WellIndexed(blocks', height')
     /\ ~ProcessEnds => (IsPrefix(blocks, blocks') /\ height' >= height)
     /\ \A t \in DOMAIN threads : AddBlockAddsOne(t)]_vars

\* a chain reloaded from the archive has been extended by one block
ReloadedChainExtended ==
  /\ "stopped" \in DOMAIN call
  /\ phase = "running"
  /\ Len(call.stopped) = 2
  /\ Len(blocks) = 3
  /\ height = 2
  /\ last.op \in {"new_block", "POST /mine"}
  /\ last.err = "nil"


\* ---------------------------------------------------------------------
\* The effect of ApplyTransaction on the outputs and the balances

\* the uint64 sum of the first k amounts of the enumeration
RECURSIVE SumFirst(_, _)
SumFirst(order, k) ==
  IF k = 0 THEN U64Zero ELSE U64Add(SumFirst(order, k - 1), order[k].Amount)

\* the length of the greedy selection: the shortest prefix that covers needed
GreedyLength(order, needed) ==
  CHOOSE k \in 1..Len(order) :
    /\ U64GreaterEq(SumFirst(order, k), needed)
    /\ \A j \in 1..(k - 1) : U64Less(SumFirst(order, j), needed)

\* the addresses that hold or receive outputs
Addresses == {x.Address : x \in OutputPool} \cup {AddrA, AddrB, AddrM}

\* the transfer is not a coinbase, pays another address, and the sender's
\* balance covers amount + fee
Covered(us, tx) ==
  /\ ~IsCoinbase(tx)
  /\ tx.From # tx.To
  /\ ~TotalWraps(tx)
  /\ U64GreaterEq(GetBalance(us, tx.From), Total(tx))

\* what the claim says the call does when the sender's outputs are
\* enumerated in `order`: us before the call, after after it
TransferEffect(us, after, tx, order) ==
  LET k == GreedyLength(order, Total(tx))
      selected == {order[j] : j \in 1..k}
      total == SumFirst(order, k)
      pay == UTXO(tx.ID, tx.To, tx.Amount, 0)
      change == UTXO(tx.ID, tx.From, U64Sub(total, Total(tx)), 1)
  IN  /\ selected \cap after = {}
      /\ (us \ selected) \subseteq after
      /\ after \ us \subseteq {pay, change}
      /\ pay \in after
      /\ change \in after <=> U64Less(Total(tx), total)
      /\ GetBalance(after, tx.From) = U64Sub(GetBalance(us, tx.From), Total(tx))
      /\ GetBalance(after, tx.To) = U64Add(GetBalance(us, tx.To), tx.Amount)
      /\ \A a \in Addresses \ {tx.From, tx.To} :
           GetUTXOsForAddress(after, a) = GetUTXOsForAddress(us, a)

\* what the claim says a coinbase does
CoinbaseEffect(us, after, tx) ==
  LET out == UTXO(tx.ID, tx.To, tx.Amount, 0)
  IN  /\ out \in after
      /\ after \ us \subseteq {out}
      /\ \A x \in us \ after : x.TxID = tx.ID /\ x.Index = 0

\* C29: ApplyTransaction of a covered transfer succeeds and, for some
\* enumeration of the sender's outputs, removes exactly the greedy
\* selection, inserts (tx.id, 0) for the recipient and (tx.id, 1) for the
\* sender only when there is change, lowers the sender's balance by
\* amount + fee, raises the recipient's by amount and leaves the other
\* addresses alone; a coinbase creates exactly output (tx.id, 0).
ApplyMovesFunds ==
  [][(last'.op = "ApplyTransaction" /\ last.op \in {"NewUTXOSet", "ApplyTransaction"})
     => /\ Covered(utxos, call.tx)
           => /\ last'.err = "nil"
              /\ \E order \in Orders(GetUTXOsForAddress(utxos, call.tx.From)) :
                   TransferEffect(utxos, utxos', call.tx, order)
        /\ IsCoinbase(call.tx)
           => /\ last'.err = "nil"
              /\ CoinbaseEffect(utxos, utxos', call.tx)]_vars

\* the same for the first call only, on a set that holds no output of tx
\* and whose balances fit 64 bits
FirstApplyMovesFunds ==
  [][(last'.op = "ApplyTransaction" /\ last.op = "NewUTXOSet"
        /\ \A x \in utxos : x.Amount # U64Max)
     => /\ Covered(utxos, call.tx)
           => /\ last'.err = "nil"
              /\ \E order \in Orders(GetUTXOsForAddress(utxos, call.tx.From)) :
                   TransferEffect(utxos, utxos', call.tx, order)
        /\ IsCoinbase(call.tx)
           => /\ last'.err = "nil"
              /\ CoinbaseEffect(utxos, utxos', call.tx)]_vars


\* ---------------------------------------------------------------------
\* Merkle proofs called directly on lists of transaction ids

\* the longest list of transaction ids a proof is generated for
MaxLeaves == 5

\* the transaction ids the lists are made of
LeafIDs == {<<"x">>, <<"y">>}

IDLists == UNION {[1..n -> LeafIDs] : n \in 1..MaxLeaves}

InitMerkle ==
  /\ blocks = <<>>
  /\ height = 0
  /\ utxos = {}
  /\ mempool = {}
  /\ store = EmptyStore
  /\ difficulty = 1
  /\ now = 1
  /\ phase = "new"
  /\ last = Result("main", "nil")
  /\ \E ids \in IDLists, index \in 0..(MaxLeaves - 1) :
       /\ index < Len(ids)
       /\ call = [ids |-> ids, index |-> index, root |-> EmptyString,
                  proof |-> <<>>, ok |-> FALSE]
  /\ Alone

\* VerifyTransactionInclusion(ids[i], BuildMerkleRoot(ids),
\*                            GenerateMerkleProof(ids, i), i)
CallVerifyTransactionInclusion ==
  /\ last.op = "main"
  /\ LET root == BuildMerkleRoot(call.ids)
         proof == GenerateMerkleProof(call.ids, call.index)
     IN  call' = [call EXCEPT
                    !.root = root,
                    !.proof = proof,
                    !.ok = VerifyTransactionInclusion(call.ids[call.index + 1], root,
                                                      proof, call.index)]
  /\ last' = Result("VerifyTransactionInclusion", "nil")
  /\ UNCHANGED <<blocks, height, utxos, mempool, store, difficulty, now, phase, others>>

SpecMerkle == InitMerkle /\ [][CallVerifyTransactionInclusion]_vars

\* C26: for every non-empty list of transaction ids, of even or odd
\* length, and every index in range, the proof generated for the index
\* verifies the id at the index against the Merkle root of the list.
GeneratedProofVerifies ==
  last.op = "VerifyTransactionInclusion" => call.ok

\* the proof of the last id of a list of five: two of the three levels
\* it passes are odd and duplicate their last element
ProofOfLastOfFive ==
  /\ last.op = "VerifyTransactionInclusion"
  /\ Len(call.ids) = 5
  /\ call.index = 4
  /\ Len(call.proof) = 3
  /\ call.ids[4] # call.ids[5]
  /\ call.proof[1] = call.ids[5]
  /\ call.ok


\* ---------------------------------------------------------------------
\* Stopping the miner during the nonce search

\* Miner.Stop ran while thread t was in the nonce search
Interrupted(t) ==
  \E s \in DOMAIN threads :
    threads[s].op = "Miner.Stop" /\ threads[s].pc = "done" /\ t \in threads[s].seen

\* C25: a MineBlock call whose nonce search was running when Miner.Stop
\* was invoked leaves the search without a block to add: it never goes
\* on to AddBlock and its block is never in the chain.
StopCancelsSearch ==
  \A t \in DOMAIN threads :
    Interrupted(t) =>
      /\ threads[t].pc \in {"mine", "done"}
      /\ \A i \in DOMAIN blocks : blocks[i].Hash # threads[t].block.Hash


\* ---------------------------------------------------------------------
\* Consumed outputs

\* the scenario runs the operations of a running node, not the startup
RunningNodeOnly == \A t \in DOMAIN threads : threads[t].op # "Rebuild"

\* C30: a key (tx id, output index) that ApplyTransaction has removed
\* from the UTXO set as spent is never in the set again, whatever
\* AddBlock, MineBlock and Update do afterwards.
SpentKeyNeverRecreated ==
  RunningNodeOnly =>
    \A x \in utxos : <<x.TxID, x.Index>> \notin call.spent


\* ---------------------------------------------------------------------
\* The block ProofOfWork.Mine returns

\* b is what the search makes of the candidate c: only nonce and hash
\* differ, the hash is that of the final nonce and satisfies the
\* difficulty, and no nonce from c's up to b's does
IsMinedFrom(b, c, d) ==
  /\ [b EXCEPT !.Nonce = c.Nonce, !.Hash = c.Hash] = c
  /\ b.Hash = ComputeHash(b)
  /\ isValidHash(b.Hash, d)
  /\ b.Nonce >= c.Nonce
  /\ \A n \in c.Nonce..(b.Nonce - 1) :
       ~isValidHash(ComputeHash([c EXCEPT !.Nonce = n]), d)

\* C31: the block a MineBlock call appends is the candidate it built with
\* only Nonce and Hash changed by Mine: Hash is ComputeHash for the final
\* nonce and starts with difficulty zeros, and the nonce is the smallest
\* one from the starting nonce that satisfies the difficulty.
MineFindsSmallestNonce ==
  [][\A t \in DOMAIN threads \cap DOMAIN threads' :
       threads[t].op = "MineBlock" =>
         /\ (threads[t].pc = "mine" /\ threads'[t].pc # "mine")
              => IsMinedFrom(threads'[t].block, threads[t].block, difficulty)
         /\ threads[t].pc \notin {"select", "tip", "build", "mine"}
              => threads'[t].block = threads[t].block
         /\ (threads[t].pc = "append" /\ blocks' # blocks)
              => blocks' = Append(blocks, threads[t].block)]_vars

\* a block was mined whose first nonces did not satisfy the difficulty
MinedAfterSearch ==
  /\ last = Result("POST /mine", "nil")
  /\ GetLatestBlock(blocks).Nonce > 0


\* ---------------------------------------------------------------------
\* The total supply

\* C33: while the node's chain is in use the amounts of all UTXOs sum to
\* 1000000 + 50 * height: every appended block adds the block reward and
\* nothing else creates or destroys value.
SupplyIsGenesisPlusRewards ==
  (ChainInUse /\ threads = <<>>)
    => SumAmounts(utxos) = U64(GenesisSupply + BlockReward * height)


\* ---------------------------------------------------------------------
\* A rejected block and the UTXO set

\* C34: when AddBlock returns an error because the block failed
\* validation or one of its transactions could not be applied, the UTXO
\* set is what it was before the call.
RejectedBlockLeavesUTXOs ==
  [][(/\ ReturnsAlone("conn1")
      /\ last'.err \in {"invalid block", "failed to apply transaction"})
     => utxos' = threads["conn1"].entry.utxos]_vars


\* ---------------------------------------------------------------------
\* The archive and the chain in memory

\* C38: while the chain is in use the archive holds a block under every
\* height from 0 to the persisted height, and each is the block the chain
\* in memory holds at that height, also after a failed SaveBlock that
\* later appends followed.
ArchiveHoldsEveryHeight ==
  (ChainInUse /\ store.height # NoHeight) =>
    \A h \in 0..store.height :
      /\ StoreHasBlock(store, h)
      /\ h < Len(blocks)
      /\ store.index[h] = BlockToJSON(blocks[h + 1])

\* the consequence the claim draws: Initialize after a restart never
\* fails to load a block
RestartFindsEveryBlock ==
  ("stopped" \in DOMAIN call /\ last.op = "Initialize")
     => last.err # "failed to load block"


\* ---------------------------------------------------------------------
\* The Merkle root as a commitment

\* C39: no other ordered list of transaction ids has the Merkle root of
\* the list the root was built for, in particular not the list with its
\* last id repeated.
MerkleRootIsBinding ==
  last.op = "VerifyTransactionInclusion" =>
    \A other \in IDLists : other # call.ids => BuildMerkleRoot(other) # call.root


\* ---------------------------------------------------------------------
\* The balance precheck and the input selection

\* C36: for a transfer whose amount + fee is positive and fits 64 bits,
\* ValidateTransaction succeeds exactly when ApplyTransaction, called on
\* the same UTXO set right after it, succeeds.
PrecheckAgreesWithApply ==
  [][(/\ last.op = "ValidateTransaction"
      /\ last'.op = "ApplyTransaction"
      /\ ~IsCoinbase(call.tx)
      /\ ~TotalWraps(call.tx)
      /\ Total(call.tx) # U64Zero)
     => (last.err = "nil" <=> last'.err = "nil")]_vars

\* the same on the sets whose balances fit 64 bits
PrecheckAgreesWithinRange ==
  [][(/\ last.op = "ValidateTransaction"
      /\ last'.op = "ApplyTransaction"
      /\ ~IsCoinbase(call.tx)
      /\ ~TotalWraps(call.tx)
      /\ Total(call.tx) # U64Zero
      /\ \A x \in utxos : x.Amount # U64Max)
     => (last.err = "nil" <=> last'.err = "nil")]_vars


\* ---------------------------------------------------------------------
\* Blockchain.GetBlocks, called directly and through GET /blocks

\* Blockchain.GetBlocks: end = start + limit in 64 bits, clamped to the
\* length; the slice expression panics when start is past end
GetBlocks(chain, start, limit) ==
  LET length == U64(Len(chain))
      sum == U64Add(start, limit)
      end == IF U64Less(length, sum) THEN length ELSE sum
  IN  IF U64Less(end, start) THEN [err |-> "panic", blocks |-> <<>>]
      ELSE [err |-> "nil",
            blocks |-> SubSeq(chain, start[1] + 1, end[1])]

\* a chain of the genesis block and n empty mined blocks
RECURSIVE MinedChain(_)
MinedChain(n) ==
  IF n = 0 THEN <<NewGenesisBlock(1)>>
  ELSE LET chain == MinedChain(n - 1)
       IN  Append(chain, Mine(CandidateBlock(chain, n - 1, <<>>, AddrM, 1, 1), 1).block)

Starts == {U64(n) : n \in 0..(MaxHeight + 2)} \cup {U64Max}

Limits == {U64Zero, U64(1), U64(2), U64(10), U64(101), U64Max}

InitGetBlocks ==
  /\ \E n \in 0..(MaxHeight + 1) : blocks = SubSeq(MinedChain(MaxHeight), 1, n)
  /\ height = IF blocks = <<>> THEN 0 ELSE Len(blocks) - 1
  /\ utxos = {}
  /\ mempool = {}
  /\ store = EmptyStore
  /\ difficulty = 1
  /\ now = 1
  /\ phase = "running"
  /\ last = Result("main", "nil")
  /\ \E start \in Starts, limit \in Limits :
       call = [start |-> start, limit |-> limit, blocks |-> <<>>]
  /\ Alone

\* bc.GetBlocks(start, limit)
CallGetBlocks ==
  /\ last.op = "main"
  /\ LET r == GetBlocks(blocks, call.start, call.limit)
     IN  /\ last' = Result("GetBlocks", r.err)
         /\ call' = [call EXCEPT !.blocks = r.blocks]
  /\ UNCHANGED <<blocks, height, utxos, mempool, store, difficulty, now, phase, others>>

\* Server.handleGetBlocks: the limit capped at 100, then GetBlocks
handleGetBlocks ==
  /\ last.op = "main"
  /\ LET limit == IF U64Less(U64(100), call.limit) THEN U64(100) ELSE call.limit
         r == GetBlocks(blocks, call.start, limit)
     IN  /\ last' = Result("GET /blocks", r.err)
         /\ call' = [call EXCEPT !.limit = limit, !.blocks = r.blocks]
  /\ UNCHANGED <<blocks, height, utxos, mempool, store, difficulty, now, phase, others>>

SpecGetBlocks == InitGetBlocks /\ [][CallGetBlocks \/ handleGetBlocks]_vars

\* the heights h with start <= h < min(start + limit, len(blocks)), the sum
\* taken in the integers
HeightsAsked(chain, start, limit) ==
  {h \in 0..(Len(chain) - 1) :
     /\ U64GreaterEq(U64(h), start)
     /\ U64Less(U64Sub(U64(h), start), limit)}

IsSliceOf(result, chain, hs) ==
  /\ Len(result) = Cardinality(hs)
  /\ \A i \in DOMAIN result :
       LET first == CHOOSE h \in hs : \A g \in hs : h <= g
       IN  result[i] = chain[first + i]

\* C40: for every chain and every pair (start, limit) of unsigned
\* integers, GetBlocks(start, limit) returns without failing exactly the
\* blocks at the heights h with start <= h < min(start + limit,
\* len(blocks)), in height order, and nothing when start >= len(blocks).
GetBlocksReturnsTheWindow ==
  last.op = "GetBlocks"
    => /\ last.err = "nil"
       /\ IsSliceOf(call.blocks, blocks, HeightsAsked(blocks, call.start, call.limit))

\* whenever GetBlocks returns, it returns that window
GetBlocksWindowWhenItReturns ==
  (last.op \in {"GetBlocks", "GET /blocks"} /\ last.err = "nil")
    => IsSliceOf(call.blocks, blocks, HeightsAsked(blocks, call.start, call.limit))

\* it returns whenever start is within the chain and start + limit fits 64 bits
GetBlocksReturnsInRange ==
  (/\ last.op \in {"GetBlocks", "GET /blocks"}
   /\ U64GreaterEq(U64(Len(blocks)), call.start)
   /\ U64GreaterEq(U64Add(call.start, call.limit), call.start))
    => last.err = "nil"


\* ---------------------------------------------------------------------
\* ProofOfWork: the difficulty field.  Here the variable difficulty holds
\* pow.difficulty as a 64-bit two's complement int in four limbs; the block
\* timestamps and targetBlockTime given are whole seconds, and the
\* durations computed from them keep their nanoseconds.

I64Max == <<LimbBase - 1, LimbBase - 1, LimbBase - 1, (LimbBase \div 2) - 1>>

I64Min == <<0, 0, 0, LimbBase \div 2>>

\* -n for a small n
I64Neg(n) == U64Sub(U64Zero, U64(n))

\* difficulty < 1
I64LessThanOne(d) == d[4] >= LimbBase \div 2 \/ d = U64Zero

\* a time.Duration (an int64 of nanoseconds) as whole seconds and the
\* nanoseconds beyond them, both of the sign of the duration
Duration(sec, nsec) == [sec |-> sec, nsec |-> nsec]

\* r * 10^9 / k for 0 <= r < k, rounded down: long division, three decimal
\* digits at a time
FractionNanos(r, k) ==
  LET x1 == r * 1000
      x2 == (x1 % k) * 1000
      x3 == (x2 % k) * 1000
  IN  ((x1 \div k) * 1000 + (x2 \div k)) * 1000 + (x3 \div k)

\* a duration of secs seconds divided by k: Go's integer division of the
\* nanoseconds, which truncates toward zero
DurationDiv(secs, k) ==
  LET a == IF secs < 0 THEN 0 - secs ELSE secs
      q == a \div k
      f == FractionNanos(a % k, k)
  IN  IF secs < 0 THEN Duration(0 - q, 0 - f) ELSE Duration(q, f)

\* a < b on durations
DurationLess(a, b) == a.sec < b.sec \/ (a.sec = b.sec /\ a.nsec < b.nsec)

\* NewProofOfWork: the two fields of the instance
NewProofOfWork(d, targetBlockTime) ==
  [difficulty |-> IF I64LessThanOne(d) THEN U64(1) ELSE d,
   targetBlockTime |-> IF targetBlockTime = 0 THEN 10 ELSE targetBlockTime]

\* ProofOfWork.SetDifficulty: the new difficulty
SetDifficulty(d) == IF I64LessThanOne(d) THEN U64(1) ELSE d

RECURSIVE TotalTime(_, _)
TotalTime(recentBlocks, i) ==
  IF i > Len(recentBlocks) THEN 0
  ELSE (recentBlocks[i].Timestamp - recentBlocks[i - 1].Timestamp)
         + TotalTime(recentBlocks, i + 1)

\* ProofOfWork.AdjustDifficulty: the new difficulty.  The average and the
\* two thresholds are durations in nanoseconds; ++ and -- on an int wrap
\* around
AdjustDifficulty(d, targetBlockTime, recentBlocks) ==
  IF Len(recentBlocks) < 10 THEN d
  ELSE LET avgTime == DurationDiv(TotalTime(recentBlocks, 2), Len(recentBlocks) - 1)
       IN  IF DurationLess(avgTime, DurationDiv(targetBlockTime, 2))
           THEN U64Add(d, U64(1))
           ELSE IF /\ DurationLess(Duration(targetBlockTime * 2, 0), avgTime)
                   /\ ~I64LessThanOne(d) /\ d # U64(1)
                THEN U64Sub(d, U64(1))
                ELSE d

\* the difficulties passed to NewProofOfWork and SetDifficulty
DifficultyArgs == {I64Min, I64Neg(1), U64Zero, U64(1), U64(2), I64Max}

\* n blocks whose timestamps start at first and are gap seconds apart
TimedBlocks(n, first, gap) ==
  [i \in 1..n |-> [Index |-> i - 1, Timestamp |-> first + (i - 1) * gap]]

\* ten blocks: nine gap seconds apart, the tenth lastGap seconds later
UnevenBlocks(gap, lastGap) ==
  Append(TimedBlocks(9, 0, gap), [Index |-> 9, Timestamp |-> 8 * gap + lastGap])

\* the lists passed to AdjustDifficulty: none, nine, ten or eleven blocks,
\* mined at once, on target, slowly, or with timestamps running backwards;
\* and ten blocks whose average is a fraction of a second past a threshold
RecentLists ==
  {TimedBlocks(n, 1, gap) : n \in {0, 9, 10, 11}, gap \in {0, 10, 30}}
    \cup {TimedBlocks(10, 400, -30), UnevenBlocks(20, 25), UnevenBlocks(2, 6),
          UnevenBlocks(20, 20), UnevenBlocks(5, 5)}

InitPow ==
  /\ blocks = <<>>
  /\ height = 0
  /\ utxos = {}
  /\ mempool = {}
  /\ store = EmptyStore
  /\ now = 1
  /\ phase = "new"
  /\ last = Result("NewProofOfWork", "nil")
  /\ \E d \in DifficultyArgs, t \in {0, 5, 10} :
       LET pow == NewProofOfWork(d, t)
       IN  /\ difficulty = pow.difficulty
           /\ call = [targetBlockTime |-> pow.targetBlockTime,
                      before |-> pow.difficulty, recentBlocks |-> <<>>]
  /\ Alone

\* pow.SetDifficulty(d)
CallSetDifficulty(d) ==
  /\ now <= MaxCalls
  /\ difficulty' = SetDifficulty(d)
  /\ call' = [call EXCEPT !.before = difficulty, !.recentBlocks = <<>>]
  /\ last' = Result("SetDifficulty", "nil")
  /\ now' = now + 1
  /\ UNCHANGED <<blocks, height, utxos, mempool, store, phase, others>>

\* pow.AdjustDifficulty(recentBlocks)
CallAdjustDifficulty(recentBlocks) ==
  /\ now <= MaxCalls
  /\ difficulty' = AdjustDifficulty(difficulty, call.targetBlockTime, recentBlocks)
  /\ call' = [call EXCEPT !.before = difficulty, !.recentBlocks = recentBlocks]
  /\ last' = Result("AdjustDifficulty", "nil")
  /\ now' = now + 1
  /\ UNCHANGED <<blocks, height, utxos, mempool, store, phase, others>>

NextPow ==
  \/ \E d \in DifficultyArgs : CallSetDifficulty(d)
  \/ \E recentBlocks \in RecentLists : CallAdjustDifficulty(recentBlocks)

SpecPow == InitPow /\ [][NextPow]_vars

\* b is a, a + 1 or a - 1 in the integers
WithinOne(a, b) ==
  \/ b = a
  \/ a # I64Max /\ b = U64Add(a, U64(1))
  \/ a # I64Min /\ b = U64Sub(a, U64(1))

\* C32: the difficulty is at least 1 after NewProofOfWork, SetDifficulty
\* and AdjustDifficulty with any arguments; one AdjustDifficulty call
\* changes it by at most 1 and leaves it unchanged when given fewer than
\* ten blocks.
DifficultyStaysAtLeastOne ==
  /\ ~I64LessThanOne(difficulty)
  /\ last.op = "AdjustDifficulty"
       => /\ WithinOne(call.before, difficulty)
          /\ Len(call.recentBlocks) < 10 => difficulty = call.before

\* the same for every call that starts from a difficulty of at least 1
\* other than the largest int
DifficultyStaysBelowLargest ==
  [][(~I64LessThanOne(difficulty) /\ difficulty # I64Max)
     => /\ ~I64LessThanOne(difficulty')
        /\ last'.op = "AdjustDifficulty"
             => /\ WithinOne(difficulty, difficulty')
                /\ Len(call'.recentBlocks) < 10 => difficulty' = difficulty]_vars


\* ---------------------------------------------------------------------
\* Miner.Start and Miner.Stop.  call holds Miner.mining, locks.miner the
\* holder of Miner.mu, thread "loop" runs Start and thread "main" Stop.

\* a loop that takes the flag for set whatever it read
AlwaysMining(read) == TRUE

\* the loop condition m.IsMining(), from the value read under the mutex
IsMining(read) == read

\* the frame of the goroutine of Miner.Start(M): read is the flag as
\* IsMining found it, entered counts the passes into the loop body made
\* after a Stop that cleared the flag returned
LoopThread ==
  [read |-> FALSE, entered |-> 0] @@ NewThread("Miner.Start", "lock", <<>>, <<>>)

\* the frame of the call of Miner.Stop: whether Start had set the flag
\* before, and the length of the chain at the return
StopThread ==
  [afterStart |-> FALSE, length |-> 0] @@ NewThread("Miner.Stop", "lock", <<>>, <<>>)

\* Miner.Start: Lock, mining = true, Unlock; then the loop: IsMining (Lock,
\* read, Unlock), mempool.Size, the call of MineBlock (which runs by
\* MineBlockStep, AddBlockStep and ApplyTransactionStep), its error logged,
\* and back.
StartStep(t) ==
  LET f == threads[t]
      stopped == /\ "main" \in DOMAIN threads
                 /\ threads["main"].op = "Miner.Stop"
                 /\ threads["main"].pc = "done"
                 /\ threads["main"].afterStart
  IN  /\ \/ /\ f.op = "Miner.Start"
            /\ \/ /\ f.pc = "lock" /\ locks.miner = "free"
                  /\ locks' = [locks EXCEPT !.miner = t]
                  /\ threads' = [threads EXCEPT ![t].pc = "set"]
                  /\ UNCHANGED call
               \/ /\ f.pc = "set"
                  /\ call' = [call EXCEPT !.mining = TRUE]
                  /\ threads' = [threads EXCEPT ![t].pc = "unlock"]
                  /\ UNCHANGED locks
               \/ /\ f.pc = "unlock"
                  /\ locks' = [locks EXCEPT !.miner = "free"]
                  /\ threads' = [threads EXCEPT ![t].pc = "rlock"]
                  /\ UNCHANGED call
               \/ /\ f.pc = "rlock" /\ locks.miner = "free"
                  /\ locks' = [locks EXCEPT !.miner = t]
                  /\ threads' = [threads EXCEPT ![t].pc = "read"]
                  /\ UNCHANGED call
               \/ /\ f.pc = "read"
                  /\ threads' = [threads EXCEPT ![t].pc = "runlock", ![t].read = call.mining]
                  /\ UNCHANGED <<call, locks>>
               \/ /\ f.pc = "runlock"
                  /\ locks' = [locks EXCEPT !.miner = "free"]
                  /\ threads' = [threads EXCEPT ![t] =
                         IF IsMining(f.read)
                         THEN [f EXCEPT !.pc = "size",
                                        !.entered = IF stopped THEN @ + 1 ELSE @]
                         ELSE [f EXCEPT !.pc = "done"]]
                  /\ UNCHANGED call
               \/ /\ f.pc = "size" /\ Size(mempool) = 0
                  /\ threads' = [threads EXCEPT ![t].pc = "rlock"]
                  /\ UNCHANGED <<call, locks>>
               \/ /\ f.pc = "size" /\ Size(mempool) # 0
                  /\ height + Cardinality(Appenders) < MaxHeight
                  /\ now <= MaxClock
                  /\ threads' = [threads EXCEPT ![t] =
                         [f EXCEPT !.op = "MineBlock", !.in = "MineBlock",
                                   !.pc = "select", !.miner = AddrM]]
                  /\ UNCHANGED <<call, locks>>
            /\ UNCHANGED last
         \/ /\ f.op = "MineBlock" /\ f.pc = "done"
            /\ last' = Result("MineBlock", f.err)
            /\ threads' = [threads EXCEPT ![t] =
                   [f EXCEPT !.op = "Miner.Start", !.in = "Miner.Start", !.pc = "rlock",
                             !.err = "nil", !.warned = FALSE, !.txs = <<>>,
                             !.queue = <<>>, !.tip = <<>>, !.block = <<>>]]
            /\ UNCHANGED <<call, locks>>
      /\ UNCHANGED <<blocks, height, utxos, mempool, store, difficulty, now, phase,
                     peers, net>>

\* Miner.Stop: Lock, mining = false, Unlock.  The frame records whether
\* Start had set the flag before, and the length of the chain at the return.
MinerStopStep(t) ==
  LET f == threads[t]
  IN  /\ f.op = "Miner.Stop"
      /\ \/ /\ f.pc = "lock" /\ locks.miner = "free"
            /\ locks' = [locks EXCEPT !.miner = t]
            /\ threads' = [threads EXCEPT ![t].pc = "clear"]
            /\ UNCHANGED call
         \/ /\ f.pc = "clear"
            /\ call' = [call EXCEPT !.mining = FALSE]
            /\ threads' = [threads EXCEPT ![t].pc = "unlock",
                                          ![t].afterStart = call.mining]
            /\ UNCHANGED locks
         \/ /\ f.pc = "unlock"
            /\ locks' = [locks EXCEPT !.miner = "free"]
            /\ threads' = [threads EXCEPT ![t].pc = "done", ![t].length = Len(blocks)]
            /\ UNCHANGED call
      /\ UNCHANGED <<blocks, height, utxos, mempool, store, difficulty, now, phase, last,
                     peers, net>>


\* ---------------------------------------------------------------------
\* Progress of the node's miner: a node whose first block was mined to A
\* and whose miner, from then on, is M; clients post transfers signed by A

LargeTransfer == CreateAndSignTransaction(AddrA, AddrB, U64(30), U64(1), 1)

LargerTransfer == CreateAndSignTransaction(AddrA, AddrB, U64(30), U64(2), 1)

PostedToMiner == SubmittedTxs \cup {LargeTransfer, LargerTransfer}

\* main() with --miner-address M: go blockMiner.Start(M), before the API
\* server is started
StartMiner ==
  /\ phase = "running"
  /\ "loop" \notin DOMAIN threads
  /\ threads' = ("loop" :> LoopThread) @@ threads
  /\ call' = ("mining" :> FALSE) @@ call
  /\ UNCHANGED <<blocks, height, utxos, mempool, store, difficulty, now, phase, last,
                 locks, peers, net>>

\* the API server is up
Serving == "loop" \in DOMAIN threads

\* the first block has been mined to A and its request answered: from
\* here on the loop of the miner is the only appender
Funded == height = 1 /\ "http" \notin DOMAIN threads

\* the loop of Miner.Start calls MineBlock(M) whenever it finds the mempool
\* not empty; a client asks for the first block to be mined to A, and
\* clients then post transactions
NextProgress ==
  \/ Initialize(FALSE)
  \/ Rebuild
  \/ StartMiner
  \/ \E tx \in PostedToMiner :
       Serving /\ Funded /\ Pending < MaxMempool /\ handleBroadcastTransaction(tx)
  \/ handleBroadcastTransactionAdd
  \/ Serving /\ height = 0 /\ handleMine(AddrA)
  \/ handleMineResponse
  \/ Serving /\ StartStep("loop")
  \/ \E t \in DOMAIN threads : MineBlockStep(t)
  \/ \E t \in DOMAIN threads : AddBlockStep(t, FALSE)
  \/ \E t \in DOMAIN threads : ApplyTransactionStep(t)

SpecProgress == Init /\ [][NextProgress]_vars

\* a MineBlock call made now would return an error
MineBlockWouldFail(minerAddress) ==
  \A txs \in GetTransactions(mempool, MineBatchLimit) :
    LET mined == Mine(CandidateBlock(blocks, height, txs, minerAddress, difficulty, now),
                      difficulty)
    IN  /\ mined.found
        /\ \A r \in MineBlockOutcomes(blocks, height, utxos, mempool, store,
                                       mined.block, txs, FALSE) : r.err # "nil"

\* transactions are waiting, the last call the loop made of MineBlock
\* failed and the loop has not yet made the next
MinerFailed ==
  /\ phase = "running"
  /\ mempool # {}
  /\ last.op = "MineBlock"
  /\ last.err # "nil"
  /\ threads["loop"].op = "Miner.Start"

\* C35: with a terminating search and no other appender, repeated
\* MineBlock calls make progress: the transactions admitted through
\* POST /tx, two of one sender that pass the balance precheck one by one
\* among them, do not make every later MineBlock call fail.  On finite
\* runs: a MineBlock call that failed with transactions waiting is not
\* followed by a call that fails again.
MiningMakesProgress == MinerFailed => ~MineBlockWouldFail(AddrM)

\* a call that failed is followed by a call that fails, so that by
\* induction every later call fails
FailedMineFailsAgain == MinerFailed => MineBlockWouldFail(AddrM)

\* a failing call removes nothing from the mempool and appends nothing
FailedMineKeepsMempool ==
  [][(last'.op = "MineBlock" /\ last'.err # "nil" /\ last' # last)
     => (mempool \subseteq mempool' /\ blocks' = blocks)]_vars

\* the miner fails only on two transfers of one sender, admitted through
\* POST /tx, that the sender's balance does not cover together
FailedByOverspending ==
  MinerFailed
    => \E t1, t2 \in mempool :
         /\ t1 # t2
         /\ t1.From = t2.From
         /\ VerifyTransactionSignature(t1) /\ VerifyTransactionSignature(t2)
         /\ U64Less(GetBalance(utxos, t1.From), U64Add(Total(t1), Total(t2)))



\* ---------------------------------------------------------------------
\* The loop of the miner and Stop

\* a running node with an empty mempool; main() has started go Start(M)
\* and calls Stop at some moment
InitMiner ==
  LET genesis == NewGenesisBlock(1)
  IN  /\ blocks = <<genesis>>
      /\ height = 0
      /\ utxos \in ApplyIgnoringErrors({}, genesis.Transactions)
      /\ mempool = {}
      /\ store = SaveBlock(EmptyStore, genesis.Index, genesis.Hash, BlockToJSON(genesis))
      /\ difficulty = 1
      /\ now = 2
      /\ phase = "running"
      /\ last = Result("Rebuild", "nil")
      /\ call = [mining |-> FALSE]
      /\ threads = ("loop" :> LoopThread) @@ ("main" :> StopThread)
      /\ locks = NoLocks
      /\ peers = <<>>
      /\ net = <<>>

NextMiner ==
  \/ StartStep("loop")
  \/ MinerStopStep("main")
  \/ \E tx \in {ForgedTransfer, ClientCoinbase} : handleNewTransaction(tx)
  \/ MineBlockStep("loop")
  \/ AddBlockStep("loop", FALSE)
  \/ ApplyTransactionStep("loop")

SpecMiner == InitMiner /\ [][NextMiner]_vars

\* the loop of Start has found the flag cleared and Start has returned
LoopLeft == threads["loop"].op = "Miner.Start" /\ threads["loop"].pc = "done"

\* Stop has returned, and it cleared a flag that Start had set
StoppedAfterStart == threads["main"].pc = "done" /\ threads["main"].afterStart

\* C37: after a Stop called once Start has set the flag, the loop leaves
\* at its next evaluation of the flag: it finishes the pass it is in,
\* appending at most one more block, enters its body no more, and is never
\* kept waiting for the mutex; the flag is read and written only by the holder of the
\* mutex; and the loop leaves only after such a Stop, never after one that
\* completed before Start set the flag.
StopEndsTheLoop ==
  LET loop == threads["loop"]
      stop == threads["main"]
  IN  /\ StoppedAfterStart
           => /\ ~call.mining
              /\ loop.entered = 0
              /\ Len(blocks) <= stop.length + 1
              /\ ~LoopLeft => locks.miner \in {"free", "loop"}
      /\ loop.pc \in {"set", "unlock", "read", "runlock"} <=> locks.miner = "loop"
      /\ stop.pc \in {"clear", "unlock"} <=> locks.miner = "main"
      /\ LoopLeft => StoppedAfterStart

\* the loop has left after one more block than the chain held when Stop returned
LoopLeftAfterOneMoreBlock ==
  /\ StoppedAfterStart
  /\ LoopLeft
  /\ Len(blocks) = threads["main"].length + 1

\* Stop completed before Start set the flag, and the loop mined a block
EarlyStopLeftLoopRunning ==
  /\ threads["main"].pc = "done"
  /\ ~threads["main"].afterStart
  /\ call.mining
  /\ Len(blocks) > 1

====
